---- MODULE Spec2Model ----
(***************************************************************************)
(* A model of the evidence-triage application: the local evidence cache    *)
(* (lib/evidence-store), the classification helpers (lib/case-api) and the *)
(* request handlers under app/api/vaults.                                  *)
(*                                                                         *)
(* Conventions.                                                            *)
(*   - A JavaScript string whose content matters (tag, file name, summary, *)
(*     text, date) is a sequence of one-character strings.                 *)
(*   - An optional value (T | undefined) is a sequence of length 0 or 1:   *)
(*     undefined is <<>>, a present value v is <<v>>.                      *)
(*   - A JavaScript Map is the sequence of its entries in insertion order. *)
(*   - A JSON value of unknown type is a record [t, v] with t its type.    *)
(***************************************************************************)
EXTENDS Integers, Sequences, FiniteSets, TLC

VARIABLES
    store,      \* evidenceStore: Map<vaultId, Map<evidenceId, EvidenceItem>>
    file,       \* the content of .evidence-data/evidence.json
    diskOk,     \* whether fs.writeFileSync currently succeeds
    hist,       \* what a step did, for the properties to refer to
    remote,     \* the vault service: objectId -> vault object
    nextObj,    \* the number of object ids the vault service has handed out
    reqs,       \* the requests in flight, one record per slot
    limit,      \* how many requests may be in flight at once
    filters,    \* the FilterState handed to filterEvidence
    result,     \* the value the last pure call returned
    client      \* the page's classifyEvidence for one uploaded file

cacheVars  == <<store, file, diskOk>>
remoteVars == <<remote, nextObj>>
pureVars   == <<filters, result, client>>
vars == <<store, file, diskOk, hist, remote, nextObj, reqs, limit, filters, result, client>>

----------------------------------------------------------------------------
(* JavaScript values *)

undefined == <<>>
Some(v) == <<v>>
IsDefined(o) == Len(o) > 0
Val(o) == o[1]

\* x || y on optional values whose present values are all truthy
OrElse(o, d) == IF IsDefined(o) THEN Val(o) ELSE d

Range(s) == {s[i] : i \in 1..Len(s)}

\* the sequence f[1], ..., f[n] written as a tuple, so that every sequence of
\* a state has one representation
RECURSIVE Tuple(_, _)
Tuple(f, n) == IF n = 0 THEN <<>> ELSE Append(Tuple(f, n - 1), f[n])

AsTuple(f) == Tuple(f, Len(f))

NoDuplicates(s) == \A i, j \in 1..Len(s) : s[i] = s[j] => i = j

\* the sequences over S of length at most n
SeqsUpTo(S, n) == {AsTuple(f) : f \in UNION {[1..k -> S] : k \in 0..n}}

RECURSIVE SetToSeq(_)
SetToSeq(S) ==
    IF S = {} THEN <<>>
    ELSE LET x == CHOOSE y \in S : TRUE IN <<x>> \o SetToSeq(S \ {x})

----------------------------------------------------------------------------
(* Map<K, V> *)

MapHas(m, k) == \E i \in 1..Len(m) : m[i].key = k
MapIndex(m, k) == CHOOSE i \in 1..Len(m) : m[i].key = k
MapGet(m, k) == IF MapHas(m, k) THEN Some(m[MapIndex(m, k)].val) ELSE undefined
MapSet(m, k, v) ==
    IF MapHas(m, k)
    THEN [m EXCEPT ![MapIndex(m, k)] = [key |-> k, val |-> v]]
    ELSE Append(m, [key |-> k, val |-> v])
MapDelete(m, k) == SelectSeq(m, LAMBDA e : e.key # k)
MapValues(m) == AsTuple([i \in 1..Len(m) |-> m[i].val])
MapKeys(m) == {m[i].key : i \in 1..Len(m)}

----------------------------------------------------------------------------
(* JavaScript strings, over the characters the model uses *)

\* UTF-16 code units
CodeUnit ==
    (" " :> 32) @@ ("-" :> 45) @@ ("." :> 46) @@ ("0" :> 48) @@ ("1" :> 49) @@
    ("2" :> 50) @@ ("3" :> 51) @@ ("4" :> 52) @@ (":" :> 58) @@ ("A" :> 65) @@
    ("B" :> 66) @@ ("T" :> 84) @@ ("Z" :> 90) @@ ("_" :> 95) @@ ("a" :> 97) @@
    ("b" :> 98) @@ ("c" :> 99) @@ ("d" :> 100) @@ ("f" :> 102) @@ ("g" :> 103) @@
    ("n" :> 110) @@ ("p" :> 112) @@ ("t" :> 116) @@ ("x" :> 120) @@ ("z" :> 122)

LowerOf == ("A" :> "a") @@ ("B" :> "b") @@ ("T" :> "t") @@ ("Z" :> "z")

toLowerCase(s) ==
    AsTuple([i \in 1..Len(s) |->
                IF s[i] \in DOMAIN LowerOf THEN LowerOf[s[i]] ELSE s[i]])

\* s.includes(q)
includes(s, q) ==
    \E i \in 0..(Len(s) - Len(q)) : SubSeq(s, i + 1, i + Len(q)) = q

\* a < b on strings: by code units, a proper prefix first
RECURSIVE StrLess(_, _)
StrLess(a, b) ==
    IF b = <<>> THEN FALSE
    ELSE IF a = <<>> THEN TRUE
    ELSE IF CodeUnit[Head(a)] # CodeUnit[Head(b)]
         THEN CodeUnit[Head(a)] < CodeUnit[Head(b)]
         ELSE StrLess(Tail(a), Tail(b))

StrLeq(a, b) == a = b \/ StrLess(a, b)

\* a.localeCompare(b) as -1, 0 or 1: letters compare without case first, a
\* lower-case letter before its upper-case form when all else is equal
localeCompare(a, b) ==
    LET la == toLowerCase(a)
        lb == toLowerCase(b)
    IN IF la # lb THEN (IF StrLess(la, lb) THEN -1 ELSE 1)
       ELSE IF a = b THEN 0
       ELSE IF StrLess(b, a) THEN -1 ELSE 1

\* a string in a condition: undefined and '' are falsy
Truthy(o) == IsDefined(o) /\ Val(o) # <<>>

----------------------------------------------------------------------------
(* lib/evidence-store: the cache *)

\* An EvidenceItem; the optional fields hold optional values.
EvidenceItem(id, objectId, filename, contentType, category, tags, relevanceScore, extractedText, summary, dateDetected, ingestionStatus, createdAt) ==
    [id |-> id, objectId |-> objectId, filename |-> filename,
     contentType |-> contentType, category |-> category, tags |-> tags,
     relevanceScore |-> relevanceScore, extractedText |-> extractedText,
     summary |-> summary, dateDetected |-> dateDetected,
     ingestionStatus |-> ingestionStatus, createdAt |-> createdAt]

OptionalFields == {"extractedText", "summary", "dateDetected"}

Property(name, value) == [name |-> name, value |-> value]

\* JSON.stringify of an item: its properties in order; a property whose value
\* is undefined is left out
ItemToJSON(item) ==
    SelectSeq(<<Property("id", item.id), Property("objectId", item.objectId),
                Property("filename", item.filename),
                Property("contentType", item.contentType),
                Property("category", item.category), Property("tags", item.tags),
                Property("relevanceScore", item.relevanceScore),
                Property("extractedText", item.extractedText),
                Property("summary", item.summary),
                Property("dateDetected", item.dateDetected),
                Property("ingestionStatus", item.ingestionStatus),
                Property("createdAt", item.createdAt)>>,
              LAMBDA p : ~(p.name \in OptionalFields /\ p.value = undefined))

VaultToJSON(vaultMap) ==
    AsTuple([i \in 1..Len(vaultMap) |->
                [key |-> vaultMap[i].key, val |-> ItemToJSON(vaultMap[i].val)]])

\* the document saveEvidenceToFile builds: vaultId -> itemId -> item
StoreToJSON(mem) ==
    AsTuple([i \in 1..Len(mem) |->
                [key |-> mem[i].key, val |-> VaultToJSON(mem[i].val)]])

\* A cache state: the in-memory Map of Maps, the file, and whether a write
\* succeeds.
Cache(mem, disk, ok) == [mem |-> mem, disk |-> disk, ok |-> ok]

\* saveEvidenceToFile: a failed write is logged and swallowed
saveEvidenceToFile(c) ==
    IF c.ok THEN [c EXCEPT !.disk = StoreToJSON(c.mem)] ELSE c

\* getVaultStore creates the vault's Map on first access (without saving)
getVaultStore(c, vaultId) ==
    IF MapHas(c.mem, vaultId) THEN c
    ELSE [c EXCEPT !.mem = MapSet(c.mem, vaultId, <<>>)]

\* evidenceStore.get(vaultId)!
VaultMap(c, vaultId) == Val(MapGet(c.mem, vaultId))

\* the vault's Map after a mutation
WithVaultMap(c, vaultId, vaultMap) == [c EXCEPT !.mem = MapSet(c.mem, vaultId, vaultMap)]

\* addEvidence storing the item in a fresh Map for the vault
addEvidenceFreshMap(c, vaultId, evidence) ==
    LET c1 == getVaultStore(c, vaultId)
    IN saveEvidenceToFile(
         WithVaultMap(c1, vaultId, <<[key |-> evidence.id, val |-> evidence]>>))

addEvidence(c, vaultId, evidence) ==
    LET c1 == getVaultStore(c, vaultId)
    IN saveEvidenceToFile(
         WithVaultMap(c1, vaultId, MapSet(VaultMap(c1, vaultId), evidence.id, evidence)))

\* the value getEvidence returns (an optional item)
getEvidence(c, vaultId, evidenceId) ==
    MapGet(VaultMap(getVaultStore(c, vaultId), vaultId), evidenceId)

\* a spread that skips the properties of updates whose value is undefined
SpreadDefined(existing, updates, f) ==
    IF f \in DOMAIN updates
          /\ ~(f \in {"summary", "dateDetected", "extractedText"} /\ updates[f] = undefined)
    THEN updates[f] ELSE existing[f]

\* { ...existing, ...updates }
Spread(existing, updates, f) == IF f \in DOMAIN updates THEN updates[f] ELSE existing[f]

Merge(existing, updates) ==
    LET p(f) == Spread(existing, updates, f)
    IN EvidenceItem(p("id"), p("objectId"), p("filename"), p("contentType"),
                    p("category"), p("tags"), p("relevanceScore"), p("extractedText"),
                    p("summary"), p("dateDetected"), p("ingestionStatus"),
                    p("createdAt"))

updateEvidence(c, vaultId, evidenceId, updates) ==
    LET c1 == getVaultStore(c, vaultId)
        existing == MapGet(VaultMap(c1, vaultId), evidenceId)
    IN IF IsDefined(existing)
       THEN saveEvidenceToFile(
              WithVaultMap(c1, vaultId, MapSet(VaultMap(c1, vaultId), evidenceId, Merge(Val(existing), updates))))
       ELSE c1

\* the value updateEvidence returns: the updated item, or undefined
updateEvidenceResult(c, vaultId, evidenceId, updates) ==
    LET existing == getEvidence(c, vaultId, evidenceId)
    IN IF IsDefined(existing) THEN Some(Merge(Val(existing), updates)) ELSE undefined

\* deleteEvidence without the save
deleteEvidenceUnsaved(c, vaultId, evidenceId) ==
    LET c1 == getVaultStore(c, vaultId)
    IN WithVaultMap(c1, vaultId, MapDelete(VaultMap(c1, vaultId), evidenceId))

deleteEvidence(c, vaultId, evidenceId) ==
    LET c1 == getVaultStore(c, vaultId)
    IN IF MapHas(VaultMap(c1, vaultId), evidenceId)
       THEN saveEvidenceToFile(
              WithVaultMap(c1, vaultId, MapDelete(VaultMap(c1, vaultId), evidenceId)))
       ELSE c1

\* the boolean deleteEvidence returns
deleteEvidenceResult(c, vaultId, evidenceId) ==
    MapHas(VaultMap(getVaultStore(c, vaultId), vaultId), evidenceId)

getAllEvidence(c, vaultId) == MapValues(VaultMap(getVaultStore(c, vaultId), vaultId))

RECURSIVE SetAll(_, _)
SetAll(m, items) ==
    IF items = <<>> THEN m
    ELSE SetAll(MapSet(m, Head(items).id, Head(items)), Tail(items))

addBulkEvidence(c, vaultId, items) ==
    LET c1 == getVaultStore(c, vaultId)
    IN saveEvidenceToFile(WithVaultMap(c1, vaultId, SetAll(VaultMap(c1, vaultId), items)))

\* [...new Set(list)]: the first occurrence of each element, in order
RECURSIVE Dedupe(_)
Dedupe(list) ==
    IF list = <<>> THEN <<>>
    ELSE LET init == Dedupe(SubSeq(list, 1, Len(list) - 1))
             last == list[Len(list)]
         IN IF last \in Range(init) THEN init ELSE Append(init, last)

BulkTagsOf(item, tagsToAdd, tagsToRemove) ==
    Dedupe(SelectSeq(item.tags, LAMBDA t : t \notin Range(tagsToRemove)) \o tagsToAdd)

RECURSIVE BulkTagsAll(_, _, _, _)
BulkTagsAll(m, evidenceIds, tagsToAdd, tagsToRemove) ==
    IF evidenceIds = <<>> THEN m
    ELSE LET id == Head(evidenceIds)
             item == MapGet(m, id)
             m1 == IF IsDefined(item)
                   THEN MapSet(m, id, [Val(item) EXCEPT
                            !.tags = BulkTagsOf(Val(item), tagsToAdd, tagsToRemove)])
                   ELSE m
         IN BulkTagsAll(m1, Tail(evidenceIds), tagsToAdd, tagsToRemove)

updateBulkTags(c, vaultId, evidenceIds, tagsToAdd, tagsToRemove) ==
    LET c1 == getVaultStore(c, vaultId)
    IN saveEvidenceToFile(
         WithVaultMap(c1, vaultId, BulkTagsAll(VaultMap(c1, vaultId), evidenceIds, tagsToAdd, tagsToRemove)))

clearVaultEvidence(c, vaultId) ==
    saveEvidenceToFile(
        [c EXCEPT !.mem = MapDelete(c.mem, vaultId)])

----------------------------------------------------------------------------
(* lib/evidence-store: filterEvidence *)

ItemDate(item) ==
    IF Truthy(item.dateDetected) THEN Val(item.dateDetected) ELSE item.createdAt

\* item.summary?.toLowerCase().includes(query), and the same for extractedText
OptIncludes(o, query) == IsDefined(o) /\ includes(toLowerCase(Val(o)), query)

\* the tag filter asking for every listed tag
FilterByTagsEvery(items, f) ==
    IF Len(f.tags) > 0
    THEN SelectSeq(items, LAMBDA item :
            \A i \in 1..Len(f.tags) : f.tags[i] \in Range(item.tags))
    ELSE items

FilterByCategories(items, f) ==
    IF Len(f.categories) > 0
    THEN SelectSeq(items, LAMBDA item : item.category \in Range(f.categories))
    ELSE items

FilterByTags(items, f) ==
    IF Len(f.tags) > 0
    THEN SelectSeq(items, LAMBDA item :
            \E i \in 1..Len(f.tags) : f.tags[i] \in Range(item.tags))
    ELSE items

FilterByDateStart(items, f) ==
    IF Truthy(f.dateRange.start)
    THEN SelectSeq(items, LAMBDA item : StrLeq(Val(f.dateRange.start), ItemDate(item)))
    ELSE items

FilterByDateEnd(items, f) ==
    IF Truthy(f.dateRange.end)
    THEN SelectSeq(items, LAMBDA item : StrLeq(ItemDate(item), Val(f.dateRange.end)))
    ELSE items

FilterByQuery(items, f) ==
    IF f.searchQuery # <<>>
    THEN LET query == toLowerCase(f.searchQuery)
         IN SelectSeq(items, LAMBDA item :
              \/ includes(toLowerCase(item.filename), query)
              \/ OptIncludes(item.summary, query)
              \/ OptIncludes(item.extractedText, query)
              \/ \E i \in 1..Len(item.tags) : includes(toLowerCase(item.tags[i]), query))
    ELSE items

Sign(n) == IF n < 0 THEN -1 ELSE IF n > 0 THEN 1 ELSE 0

\* the comparator handed to items.sort
FilterCompare(a, b, f) ==
    LET comparison ==
            CASE f.sortBy = "date" -> localeCompare(ItemDate(a), ItemDate(b))
              [] f.sortBy = "relevance" -> Sign(a.relevanceScore.v - b.relevanceScore.v)
              [] f.sortBy = "name" -> localeCompare(a.filename, b.filename)
              [] OTHER -> 0
    IN IF f.sortOrder = "asc" THEN comparison ELSE -comparison

\* Array.prototype.sort is stable: insert each element after the last one that
\* does not compare greater than it
RECURSIVE SortItems(_, _)
SortItems(items, f) ==
    IF items = <<>> THEN <<>>
    ELSE LET init == SortItems(SubSeq(items, 1, Len(items) - 1), f)
             x == items[Len(items)]
             k == Cardinality({i \in 1..Len(init) :
                     \E j \in i..Len(init) : FilterCompare(init[j], x, f) <= 0})
         IN SubSeq(init, 1, k) \o <<x>> \o SubSeq(init, k + 1, Len(init))

filterEvidence(c, vaultId, f) ==
    LET all == getAllEvidence(c, vaultId)
        byCategory == FilterByCategories(all, f)
        byTags == FilterByTags(byCategory, f)
        byStart == FilterByDateStart(byTags, f)
        byEnd == FilterByDateEnd(byStart, f)
        byQuery == FilterByQuery(byEnd, f)
    IN SortItems(byQuery, f)

----------------------------------------------------------------------------
(* lib/case-api: classifyEvidence, and the vault object list *)

\* JSON values whose type the code does not check
Num(n) == [t |-> "number", v |-> n]
Str(n) == [t |-> "string", v |-> n]     \* a non-empty, non-numeric string
NaN == [t |-> "NaN", v |-> 0]

\* the truthiness of an optional value of each kind
TruthyJson(o) == IsDefined(o) /\ Val(o) # Num(0) /\ Val(o) # NaN
TruthyName(o) == IsDefined(o) /\ Val(o) # ""

\* Number(x)
Number(j) == IF j.t = "number" THEN j ELSE NaN

isImageFile(contentType) == contentType[1] = "image"

\* tag.replace(/[_-]/g, ' ')
CleanTag(tag) ==
    AsTuple([i \in 1..Len(tag) |-> IF tag[i] \in {"_", "-"} THEN " " ELSE tag[i]])

\* the object the model's answer parses to; every property may be missing
Parsed(category, suggestedTags, summary, dateDetected, relevanceScore) ==
    [category |-> category, suggestedTags |-> suggestedTags, summary |-> summary,
     dateDetected |-> dateDetected, relevanceScore |-> relevanceScore]

Classification(category, suggestedTags, summary, dateDetected, relevanceScore) ==
    [category |-> category, suggestedTags |-> suggestedTags, summary |-> summary,
     dateDetected |-> dateDetected, relevanceScore |-> relevanceScore]

DefaultClassification ==
    Classification("other", <<>>,
        <<"U", "n", "a", "b", "l", "e", " ", "t", "o", " ", "c", "l", "a", "s", "s",
          "i", "f", "y", " ", "d", "o", "c", "u", "m", "e", "n", "t">>,
        undefined, Num(50))

\* classifyEvidence after chatCompletion has answered: content is the parsed
\* JSON of the answer, or undefined when the answer holds no JSON object or
\* JSON.parse throws
classifyEvidence(content) ==
    IF IsDefined(content)
    THEN LET parsed == Val(content)
             tags == OrElse(parsed.suggestedTags, <<>>)
         IN Classification(
              IF TruthyName(parsed.category) THEN Val(parsed.category) ELSE "other",
              AsTuple([i \in 1..Len(tags) |-> CleanTag(tags[i])]),
              IF Truthy(parsed.summary) THEN Val(parsed.summary) ELSE <<>>,
              IF Truthy(parsed.dateDetected) THEN parsed.dateDetected ELSE undefined,
              IF TruthyJson(parsed.relevanceScore) THEN Val(parsed.relevanceScore)
              ELSE Num(50))
    ELSE DefaultClassification

\* the et_ properties of a vault object's metadata
EtMeta(category, tags, summary, dateDetected, relevanceScore) ==
    [et_category |-> category, et_tags |-> tags, et_summary |-> summary,
     et_date_detected |-> dateDetected, et_relevance_score |-> relevanceScore]

NoMeta == EtMeta(undefined, undefined, undefined, undefined, undefined)

\* a VaultObject: metadata is the nested object (if any), et the top-level
\* et_ properties
VaultObject(id, filename, contentType, ingestionStatus, createdAt, metadata, et) ==
    [id |-> id, filename |-> filename, contentType |-> contentType,
     ingestionStatus |-> ingestionStatus, createdAt |-> createdAt,
     metadata |-> metadata, et |-> et]

----------------------------------------------------------------------------
(* app/api/vaults/[vaultId]/evidence/route.ts: syncEvidenceFromVault *)

\* const meta = obj.metadata || obj
MetaOf(obj) == IF IsDefined(obj.metadata) THEN Val(obj.metadata) ELSE obj.et

EtCategory(obj) ==
    IF TruthyName(MetaOf(obj).et_category) THEN MetaOf(obj).et_category
    ELSE obj.et.et_category

hasClassification(obj) == TruthyName(EtCategory(obj))

\* classificationData, for an object that has a classification
classificationData(obj) ==
    LET meta == MetaOf(obj)
        etTags == IF IsDefined(meta.et_tags) THEN meta.et_tags ELSE obj.et.et_tags
        etSummary == IF Truthy(meta.et_summary) THEN meta.et_summary
                     ELSE obj.et.et_summary
        etDate == IF Truthy(meta.et_date_detected) THEN meta.et_date_detected
                  ELSE obj.et.et_date_detected
        etScore == IF TruthyJson(meta.et_relevance_score) THEN meta.et_relevance_score
                   ELSE obj.et.et_relevance_score
    IN [category |-> Val(EtCategory(obj)),
        tags |-> OrElse(etTags, <<>>),
        summary |-> IF Truthy(etSummary) THEN etSummary ELSE undefined,
        dateDetected |-> IF Truthy(etDate) THEN etDate ELSE undefined,
        relevanceScore |-> Number(IF TruthyJson(etScore) THEN Val(etScore) ELSE Num(0)),
        ingestionStatus |-> "completed"]

\* the evidence item created for an object the cache does not hold
SyncedItem(obj) ==
    IF hasClassification(obj)
    THEN LET data == classificationData(obj)
         IN EvidenceItem(obj.id, obj.id, obj.filename, obj.contentType, data.category,
                data.tags, IF TruthyJson(Some(data.relevanceScore))
                           THEN data.relevanceScore ELSE Num(0),
                undefined, data.summary, data.dateDetected, "completed", obj.createdAt)
    ELSE EvidenceItem(obj.id, obj.id, obj.filename, obj.contentType, "other", <<>>,
                Num(0), undefined, undefined, undefined, obj.ingestionStatus,
                obj.createdAt)

\* existingByObjectId: each item under its objectId and under its id
RECURSIVE ExistingByObjectId(_, _)
ExistingByObjectId(m, all) ==
    IF all = <<>> THEN m
    ELSE LET e == Head(all)
         IN ExistingByObjectId(MapSet(MapSet(m, e.objectId, e), e.id, e), Tail(all))

localHasClassification(existing) ==
    existing.category # "other" \/ Len(existing.tags) > 0 \/ Truthy(existing.summary)

\* the guard of the ingestion-status update, without the test for 'completed'
StatusChangedOnly(existing, obj) ==
    existing.ingestionStatus # obj.ingestionStatus

\* existing.ingestionStatus !== obj.ingestionStatus && existing.ingestionStatus !== 'completed'
StatusNeedsUpdate(existing, obj) ==
    /\ existing.ingestionStatus # obj.ingestionStatus
    /\ existing.ingestionStatus # "completed"

\* the body of the loop over the listed objects, for one object
SyncObject(c, vaultId, existingMap, obj) ==
    LET found == MapGet(existingMap, obj.id)
    IN IF ~IsDefined(found)
       THEN addEvidence(c, vaultId, SyncedItem(obj))
       ELSE LET existing == Val(found)
            IN IF hasClassification(obj) /\ ~localHasClassification(existing)
               THEN updateEvidence(c, vaultId, existing.id, classificationData(obj))
               ELSE IF StatusNeedsUpdate(existing, obj)
               THEN updateEvidence(c, vaultId, existing.id,
                        [ingestionStatus |-> obj.ingestionStatus])
               ELSE c

RECURSIVE SyncObjects(_, _, _, _)
SyncObjects(c, vaultId, existingMap, objects) ==
    IF objects = <<>> THEN c
    ELSE SyncObjects(SyncObject(c, vaultId, existingMap, Head(objects)), vaultId,
                     existingMap, Tail(objects))

\* syncEvidenceFromVault once listVaultObjects has answered with objects
syncEvidenceFromVault(c, vaultId, objects) ==
    LET c1 == getVaultStore(c, vaultId)
    IN SyncObjects(c1, vaultId,
                   ExistingByObjectId(<<>>, getAllEvidence(c1, vaultId)), objects)

----------------------------------------------------------------------------
(* Bounds and the small sets the inputs are drawn from *)

MaxObjects == 1      \* object ids the vault service hands out: 1..MaxObjects
MaxTags == 2         \* length of a tag array a request carries
MaxRequests == 2     \* requests in flight at the same time
MaxFiles == 2        \* files in one upload request

ObjectIds == 1..MaxObjects
SlotIds == 1..MaxRequests
Vaults == {"v1", "v2"}

TagA == <<"a">>
TagB == <<"b">>
Tags == {TagA, TagB}
TagLists == SeqsUpTo(Tags, MaxTags)

CreatedAt == <<"2", "0", "2", "4">>

\* a record registered under an id of its own instead of the object's id
PendingItemOwnId(id, filename, contentType, ingestionStatus, createdAt) ==
    EvidenceItem(id + MaxObjects, id, filename, contentType, "other", <<>>, Num(0),
                 undefined, undefined, undefined, ingestionStatus, createdAt)

\* the record the upload handler registers for a new object
PendingItem(id, filename, contentType, ingestionStatus, createdAt) ==
    EvidenceItem(id, id, filename, contentType, "other", <<>>, Num(0),
                 undefined, undefined, undefined, ingestionStatus, createdAt)

PdfType == <<"application", "pdf">>
PngType == <<"image", "png">>
PdfName == <<"c", ".", "p", "d", "f">>
PngName == <<"p", ".", "p", "n", "g">>

----------------------------------------------------------------------------
(* The cache as the variables hold it *)

\* the values of the variables a specification does not use
NoFilters == <<>>
NoResult == <<>>
NoRequests == <<>>
NoClient == [pc |-> "none"]
NoRemote == <<>>
EmptyStore == <<>>

TheCache == Cache(store, file, diskOk)

SetCache(c) == store' = c.mem /\ file' = c.disk /\ UNCHANGED diskOk

----------------------------------------------------------------------------
(* The vault service and the requests in flight *)

TheVault == "v1"

\* hist tells that the last step was a resync
NoHist == [op |-> "none", vault |-> "", id |-> 0, item |-> undefined]
Watch(op, vaultId, id, item) == [op |-> op, vault |-> vaultId, id |-> id, item |-> item]
Synced == Watch("sync", TheVault, 0, undefined)

\* remote[id]: the object the vault service holds under id, and whether it is
\* still there (a deleted object is no longer listed)
RemoteEntry(obj, present) == [obj |-> obj, present |-> present]

\* listVaultObjects: the objects the vault lists
ListedObjects ==
    LET kept == SelectSeq(remote, LAMBDA e : e.present)
    IN AsTuple([i \in 1..Len(kept) |-> kept[i].obj])

Idle == [kind |-> "idle"]
Slots == 1..limit

\* a new request takes the lowest free slot
CanStart(s) ==
    /\ s \in Slots /\ reqs[s].kind = "idle"
    /\ \A t \in Slots : t < s => reqs[t].kind # "idle"

At(s, kind, pc) == s \in Slots /\ reqs[s].kind = kind /\ reqs[s].pc = pc

\* a JSON response: the status code and the properties of the body
Response(code) ==
    [code |-> code, error |-> "", status |-> "", evidence |-> undefined,
     classification |-> undefined, results |-> <<>>, success |-> FALSE]

Finish(r, response) == [r EXCEPT !.pc = "done", !.response = Some(response)]

\* the response has been sent; the slot is free again
Respond(s) ==
    /\ s \in Slots /\ reqs[s].kind # "idle" /\ reqs[s].pc = "done"
    /\ reqs' = [reqs EXCEPT ![s] = Idle]
    /\ hist' = NoHist
    /\ UNCHANGED <<cacheVars, remoteVars, limit, pureVars>>

----------------------------------------------------------------------------
(* The vault service changing on its own *)

\* ingestion moves on (or back: the listing may lag)
EnvStatus(Statuses) ==
    \E id \in 1..Len(remote), st \in Statuses :
        /\ remote[id].present /\ remote[id].obj.ingestionStatus # st
        /\ remote' = [remote EXCEPT ![id].obj.ingestionStatus = st]
        /\ hist' = NoHist
        /\ UNCHANGED <<cacheVars, nextObj, reqs, limit, pureVars>>

\* another client of the vault writes the object's metadata
EnvMetadata(Shapes) ==
    \E id \in 1..Len(remote), sh \in Shapes :
        /\ remote[id].present
        /\ <<remote[id].obj.metadata, remote[id].obj.et>> # sh
        /\ remote' = [remote EXCEPT ![id].obj.metadata = sh[1], ![id].obj.et = sh[2]]
        /\ hist' = NoHist
        /\ UNCHANGED <<cacheVars, nextObj, reqs, limit, pureVars>>

----------------------------------------------------------------------------
(* app/api/vaults/[vaultId]/evidence/route.ts: POST (upload) and GET (list) *)

\* filename.toLowerCase().split('.').pop()
RECURSIVE Extension(_)
Extension(name) ==
    IF "." \in Range(name) THEN Extension(Tail(name)) ELSE toLowerCase(name)

getContentType(filename) ==
    LET ext == Extension(filename)
    IN CASE ext = <<"p", "d", "f">> -> PdfType
         [] ext = <<"p", "n", "g">> -> PngType
         [] OTHER -> <<"application", "octet-stream">>

\* file.type || getContentType(file.name)
FileContentType(f) == IF f.type # <<>> THEN f.type ELSE getContentType(f.name)

UploadResult(filename, status, objectId, error) ==
    [filename |-> filename, status |-> status, evidenceId |-> objectId,
     objectId |-> objectId, error |-> error]

\* the loop over the files ending at the first file that failed
UploadStopAtFailure(r, res) ==
    LET r1 == [r EXCEPT !.results = Append(@, res), !.i = @ + 1]
    IN IF r1.i > Len(r.files) \/ res.status = "failed"
       THEN Finish(r1, [Response(200) EXCEPT !.results = r1.results])
       ELSE [r1 EXCEPT !.pc = "getUploadUrl"]

\* the end of one turn of the loop over the files
UploadNext(r, res) ==
    LET r1 == [r EXCEPT !.results = Append(@, res), !.i = @ + 1]
    IN IF r1.i > Len(r.files)
       THEN Finish(r1, [Response(200) EXCEPT !.results = r1.results])
       ELSE [r1 EXCEPT !.pc = "getUploadUrl"]

UploadStart(s, FileLists, cap) ==
    \E files \in FileLists :
        /\ CanStart(s)
        /\ nextObj + Len(files) <= cap
        /\ reqs' = [reqs EXCEPT ![s] =
              LET r == [kind |-> "upload", pc |-> "getUploadUrl", files |-> files,
                        i |-> 1, results |-> <<>>, objectId |-> 0,
                        assigned |-> <<>>, response |-> undefined]
              IN IF Len(files) = 0
                 THEN Finish(r, [Response(400) EXCEPT !.error = "No files provided"])
                 ELSE r]
        /\ hist' = NoHist
        /\ UNCHANGED <<cacheVars, remoteVars, limit, pureVars>>

\* await getUploadUrl: the vault registers the object and answers its id
UploadGetUrl(s) ==
    /\ At(s, "upload", "getUploadUrl")
    /\ LET r == reqs[s]
           f == r.files[r.i]
       IN \/ /\ nextObj' = nextObj + 1
             /\ remote' = Append(remote, RemoteEntry(
                    VaultObject(nextObj + 1, f.name, FileContentType(f), "pending",
                                CreatedAt, undefined, NoMeta), TRUE))
             /\ reqs' = [reqs EXCEPT ![s] = [r EXCEPT !.pc = "uploadFileToS3",
                    !.objectId = nextObj + 1,
                    !.assigned = Append(@, Some(nextObj + 1))]]
          \/ /\ reqs' = [reqs EXCEPT ![s] =
                    UploadNext([r EXCEPT !.assigned = Append(@, undefined)],
                        UploadResult(f.name, "failed", undefined, "API request failed"))]
             /\ UNCHANGED remoteVars
    /\ hist' = NoHist
    /\ UNCHANGED <<cacheVars, limit, pureVars>>

\* await uploadFileToS3
UploadToS3(s) ==
    /\ At(s, "upload", "uploadFileToS3")
    /\ LET r == reqs[s]
           f == r.files[r.i]
       IN \E ok \in BOOLEAN :
            reqs' = [reqs EXCEPT ![s] =
                IF ok THEN [r EXCEPT !.pc = "triggerIngestion"]
                ELSE UploadNext(r, UploadResult(f.name, "failed", undefined,
                                                "Failed to upload file to S3"))]
    /\ hist' = NoHist
    /\ UNCHANGED <<cacheVars, remoteVars, limit, pureVars>>

\* await triggerIngestion (its failure is logged), then addEvidence
UploadRegister(s) ==
    /\ At(s, "upload", "triggerIngestion")
    /\ LET r == reqs[s]
           f == r.files[r.i]
       IN /\ SetCache(addEvidence(TheCache, TheVault,
                 PendingItem(r.objectId, f.name, FileContentType(f), "processing",
                             CreatedAt)))
          /\ reqs' = [reqs EXCEPT ![s] =
                 UploadNext(r, UploadResult(f.name, "uploaded", Some(r.objectId), ""))]
    /\ hist' = NoHist
    /\ UNCHANGED <<remoteVars, limit, pureVars>>

\* GET ?sync=true: syncEvidenceFromVault (a failed listing is logged), then
\* the filtered list is answered
SyncList(s) ==
    /\ CanStart(s)
    /\ \E ok \in BOOLEAN :
          SetCache(IF ok THEN syncEvidenceFromVault(TheCache, TheVault, ListedObjects)
                   ELSE getVaultStore(TheCache, TheVault))
    /\ hist' = Synced
    /\ UNCHANGED <<remoteVars, reqs, limit, pureVars>>

----------------------------------------------------------------------------
(* app/api/vaults/[vaultId]/evidence/[evidenceId]/tags/route.ts *)

\* PUT { tags }: replace the tag list (404 when the record is not found)
TagsPut(s, TagInputs) ==
    \E id \in 1..nextObj, tags \in TagInputs :
        /\ CanStart(s)
        /\ SetCache(IF IsDefined(getEvidence(TheCache, TheVault, id))
                    THEN updateEvidence(TheCache, TheVault, id, [tags |-> tags])
                    ELSE getVaultStore(TheCache, TheVault))
        /\ hist' = NoHist
        /\ UNCHANGED <<remoteVars, reqs, limit, pureVars>>

\* POST { tag }: add one tag unless the list includes it
TagsPost(s, TagSet) ==
    \E id \in 1..nextObj, tag \in TagSet :
        /\ CanStart(s)
        /\ LET evidence == getEvidence(TheCache, TheVault, id)
           IN SetCache(IF IsDefined(evidence)
                       THEN updateEvidence(TheCache, TheVault, id,
                              [tags |-> IF tag \in Range(Val(evidence).tags)
                                        THEN Val(evidence).tags
                                        ELSE Append(Val(evidence).tags, tag)])
                       ELSE getVaultStore(TheCache, TheVault))
        /\ hist' = NoHist
        /\ UNCHANGED <<remoteVars, reqs, limit, pureVars>>

\* DELETE ?tag=name: remove every occurrence of the tag
TagsDelete(s, TagSet) ==
    \E id \in 1..nextObj, tag \in TagSet :
        /\ CanStart(s)
        /\ LET evidence == getEvidence(TheCache, TheVault, id)
           IN SetCache(IF IsDefined(evidence)
                       THEN updateEvidence(TheCache, TheVault, id,
                              [tags |-> SelectSeq(Val(evidence).tags, LAMBDA t : t # tag)])
                       ELSE getVaultStore(TheCache, TheVault))
        /\ hist' = NoHist
        /\ UNCHANGED <<remoteVars, reqs, limit, pureVars>>

\* updateBulkTags on the records of the vault
BulkTags(s, TagSeqs) ==
    \E ids \in SUBSET (1..nextObj), add \in TagSeqs, rem \in TagSeqs :
        /\ CanStart(s)
        /\ SetCache(updateBulkTags(TheCache, TheVault, SetToSeq(ids), add, rem))
        /\ hist' = NoHist
        /\ UNCHANGED <<remoteVars, reqs, limit, pureVars>>

----------------------------------------------------------------------------
(* tags/route.ts, second part: POST classify *)

OcrMaxAttempts == 30
MeaningfulLength == 20
TextPrefix == 5000

Whitespace == {" "}

\* s.trim()
RECURSIVE TrimStart(_)
TrimStart(str) ==
    IF str # <<>> /\ Head(str) \in Whitespace THEN TrimStart(Tail(str)) ELSE str

RECURSIVE TrimEnd(_)
TrimEnd(str) ==
    IF str # <<>> /\ str[Len(str)] \in Whitespace
    THEN TrimEnd(SubSeq(str, 1, Len(str) - 1)) ELSE str

trim(str) == TrimEnd(TrimStart(str))

\* s.substring(0, n)
substring(str, n) == SubSeq(str, 1, IF Len(str) < n THEN Len(str) ELSE n)

\* the test on the OCR text with the threshold one higher
OcrTextIsMeaningfulAbove(ocrText) ==
    Truthy(ocrText) /\ Len(trim(Val(ocrText))) > MeaningfulLength + 1

\* ocrText && ocrText.trim().length > 20, for the text waitForOCR returned
\* (undefined stands for null)
OcrTextIsMeaningful(ocrText) ==
    Truthy(ocrText) /\ Len(trim(Val(ocrText))) > MeaningfulLength

\* the test for the photo path without its first alternative
PhotoPathOfShortText(isImage, text) ==
    isImage /\ text # <<>> /\ Len(trim(text)) <= MeaningfulLength

\* isImage && (!text || text.trim().length <= 20)
PhotoPath(isImage, text) ==
    isImage /\ (text = <<>> \/ Len(trim(text)) <= MeaningfulLength)

PhotoSummary(filename) ==
    <<"P", "h", "o", "t", "o", "g", "r", "a", "p", "h", ":", " ">> \o filename

PhotoTags ==
    << <<"i", "m", "a", "g", "e">>,
       <<"p", "h", "o", "t", "o", "g", "r", "a", "p", "h">>,
       <<"v", "i", "s", "u", "a", "l", " ", "e", "v", "i", "d", "e", "n", "c", "e">> >>

PhotoClassification(filename) ==
    Classification("photo", PhotoTags, PhotoSummary(filename), undefined, Num(50))

\* the updates the handler passes to updateEvidence
ClassifyUpdates(classification, text) ==
    [category |-> classification.category,
     tags |-> classification.suggestedTags,
     summary |-> Some(classification.summary),
     dateDetected |-> classification.dateDetected,
     relevanceScore |-> classification.relevanceScore,
     extractedText |-> Some(substring(text, TextPrefix)),
     ingestionStatus |-> "completed"]

Call(r, name) == [r EXCEPT !.calls = Append(@, name)]

\* updateEvidence with the classification, then the 200 response
ClassifyWrite(s, r, classification, text) ==
    LET id == Val(r.evidence).id
        updates == ClassifyUpdates(classification, text)
    IN /\ SetCache(updateEvidence(TheCache, TheVault, id, updates))
       /\ reqs' = [reqs EXCEPT ![s] = Finish([r EXCEPT !.text = text],
              [Response(200) EXCEPT
                  !.evidence = updateEvidenceResult(TheCache, TheVault, id, updates),
                  !.classification = Some(classification)])]

\* the text is known: the photo classification at once, or the model is asked
ClassifyDecide(s, r, text) ==
    IF PhotoPath(isImageFile(Val(r.evidence).contentType), text)
    THEN ClassifyWrite(s, r, PhotoClassification(Val(r.evidence).filename), text)
    ELSE /\ reqs' = [reqs EXCEPT ![s] = [r EXCEPT !.pc = "chatCompletion", !.text = text]]
         /\ UNCHANGED cacheVars

ClassifyFail(s, r) ==
    /\ reqs' = [reqs EXCEPT ![s] =
          Finish(r, [Response(500) EXCEPT !.error = "Failed to classify evidence"])]
    /\ UNCHANGED cacheVars

\* the lookups in the cache: by id, then by objectId or id among all records
FindLocal(c, vaultId, evidenceId) ==
    LET byId == getEvidence(c, vaultId, evidenceId)
        all == SelectSeq(getAllEvidence(c, vaultId),
                         LAMBDA e : e.objectId = evidenceId \/ e.id = evidenceId)
    IN IF IsDefined(byId) THEN byId
       ELSE IF all # <<>> THEN Some(Head(all)) ELSE undefined

ClassifyStart(s, Ids) ==
    \E evidenceId \in Ids :
        /\ CanStart(s)
        /\ LET evidence == FindLocal(TheCache, TheVault, evidenceId)
           IN reqs' = [reqs EXCEPT ![s] =
                [kind |-> "classify",
                 pc |-> IF IsDefined(evidence) THEN "getObjectStatus"
                        ELSE "listVaultObjects",
                 evidenceId |-> evidenceId, evidence |-> evidence, status |-> "",
                 triggered |-> undefined, ocrStatus |-> "", ocrText |-> undefined,
                 text |-> <<>>, polls |-> 0, calls |-> <<>>, response |-> undefined]]
        /\ SetCache(getVaultStore(TheCache, TheVault))
        /\ hist' = NoHist
        /\ UNCHANGED <<remoteVars, limit, pureVars>>

\* the fallback taking the first listed object instead of the one asked for
ClassifyListFirstObject(s) ==
    /\ At(s, "classify", "listVaultObjects")
    /\ LET r == Call(reqs[s], "listVaultObjects")
           objs == ListedObjects
           notFound == Finish(r, [Response(404) EXCEPT !.error = "Evidence not found"])
       IN \/ /\ objs # <<>>
             /\ LET obj == Head(objs)
                    evidence == PendingItem(obj.id, obj.filename, obj.contentType,
                                            obj.ingestionStatus, obj.createdAt)
                IN /\ SetCache(addEvidence(TheCache, TheVault, evidence))
                   /\ reqs' = [reqs EXCEPT ![s] =
                         [r EXCEPT !.pc = "getObjectStatus", !.evidence = Some(evidence)]]
          \/ /\ objs = <<>>
             /\ reqs' = [reqs EXCEPT ![s] = notFound]
             /\ UNCHANGED cacheVars
          \/ /\ reqs' = [reqs EXCEPT ![s] = notFound]
             /\ UNCHANGED cacheVars
    /\ hist' = NoHist
    /\ UNCHANGED <<remoteVars, limit, pureVars>>

\* await listVaultObjects: the record is created from the listed object
ClassifyList(s) ==
    /\ At(s, "classify", "listVaultObjects")
    /\ LET r == Call(reqs[s], "listVaultObjects")
           objs == SelectSeq(ListedObjects, LAMBDA o : o.id = r.evidenceId)
           notFound == Finish(r, [Response(404) EXCEPT !.error = "Evidence not found"])
       IN \/ /\ objs # <<>>
             /\ LET obj == Head(objs)
                    evidence == PendingItem(obj.id, obj.filename, obj.contentType,
                                            obj.ingestionStatus, obj.createdAt)
                IN /\ SetCache(addEvidence(TheCache, TheVault, evidence))
                   /\ reqs' = [reqs EXCEPT ![s] =
                         [r EXCEPT !.pc = "getObjectStatus", !.evidence = Some(evidence)]]
          \/ /\ objs = <<>>
             /\ reqs' = [reqs EXCEPT ![s] = notFound]
             /\ UNCHANGED cacheVars
          \/ /\ reqs' = [reqs EXCEPT ![s] = notFound]     \* the listing failed
             /\ UNCHANGED cacheVars
    /\ hist' = NoHist
    /\ UNCHANGED <<remoteVars, limit, pureVars>>

\* an answered ingestion status that stops the request
StillPendingOnly(status) == status = "pending"

\* status.ingestionStatus === 'processing' || status.ingestionStatus === 'pending'
StillProcessing(status) == status = "processing" \/ status = "pending"

\* a non-image whose ingestion is not completed, after the trigger (if any)
ClassifyNotCompleted(r) ==
    IF r.status = "extraction_failed" THEN [r EXCEPT !.pc = "getObjectText"]
    ELSE IF StillProcessing(r.status)
         THEN Finish(r, [Response(400) EXCEPT !.error = "Document is still processing",
                                              !.status = r.status])
    ELSE [r EXCEPT !.pc = "getObjectText"]

\* the object as the vault service holds it, if it does
RemoteObject(objectId) ==
    IF objectId \in 1..Len(remote) /\ remote[objectId].present
    THEN Some(remote[objectId].obj) ELSE undefined

\* await getObjectStatus, and what the handler does with the answer up to
\* its next await
ClassifyStatus(s) ==
    /\ At(s, "classify", "getObjectStatus")
    /\ LET r == Call(reqs[s], "getObjectStatus")
           obj == RemoteObject(Val(r.evidence).objectId)
       IN \/ /\ IsDefined(obj)
             /\ LET status == Val(obj).ingestionStatus
                    r1 == [r EXCEPT !.status = status]
                IN reqs' = [reqs EXCEPT ![s] =
                     IF isImageFile(Val(r.evidence).contentType)
                     THEN [r1 EXCEPT !.pc = "getDownloadUrl"]
                     ELSE IF status = "completed" THEN [r1 EXCEPT !.pc = "getObjectText"]
                     ELSE IF status = "pending" THEN [r1 EXCEPT !.pc = "triggerIngestion"]
                     ELSE ClassifyNotCompleted(r1)]
             /\ UNCHANGED cacheVars
          \/ ClassifyFail(s, r)
    /\ hist' = NoHist
    /\ UNCHANGED <<remoteVars, limit, pureVars>>

\* the trigger followed by the text fetch, as if ingestion were completed
ClassifyTriggerThenText(s) ==
    /\ At(s, "classify", "triggerIngestion")
    /\ LET r == Call(reqs[s], "triggerIngestion")
       IN \E ok \in BOOLEAN :
            reqs' = [reqs EXCEPT ![s] =
                       [r EXCEPT !.triggered = Some(ok), !.pc = "getObjectText"]]
    /\ hist' = NoHist
    /\ UNCHANGED <<cacheVars, remoteVars, limit, pureVars>>

\* await triggerIngestion for a pending document: it succeeds, or fails and
\* the failure is logged; then the answer that it is still processing
ClassifyTrigger(s) ==
    /\ At(s, "classify", "triggerIngestion")
    /\ LET r == Call(reqs[s], "triggerIngestion")
       IN \E ok \in BOOLEAN :
            reqs' = [reqs EXCEPT ![s] =
                       ClassifyNotCompleted([r EXCEPT !.triggered = Some(ok)])]
    /\ hist' = NoHist
    /\ UNCHANGED <<cacheVars, remoteVars, limit, pureVars>>

\* await getObjectText (non-image): a failure leaves text = ''
ClassifyText(s, Texts) ==
    /\ At(s, "classify", "getObjectText")
    /\ LET r == Call(reqs[s], "getObjectText")
       IN \E text \in Texts \cup {<<>>} : ClassifyDecide(s, r, text)
    /\ hist' = NoHist
    /\ UNCHANGED <<remoteVars, limit, pureVars>>

\* image: the second await getObjectStatus, for the download URL; whatever
\* fails inside the OCR block is caught and leaves text = ''
ClassifyDownloadUrl(s) ==
    /\ At(s, "classify", "getDownloadUrl")
    /\ LET r == Call(reqs[s], "getObjectStatus")
       IN \/ /\ IsDefined(RemoteObject(Val(r.evidence).objectId))
             /\ reqs' = [reqs EXCEPT ![s] = [r EXCEPT !.pc = "processOCR"]]
             /\ UNCHANGED cacheVars
          \/ ClassifyDecide(s, r, <<>>)       \* no downloadUrl, or the call failed
    /\ hist' = NoHist
    /\ UNCHANGED <<remoteVars, limit, pureVars>>

\* await processOCR
ClassifyProcessOCR(s) ==
    /\ At(s, "classify", "processOCR")
    /\ LET r == Call(reqs[s], "processOCR")
       IN \/ /\ reqs' = [reqs EXCEPT ![s] = [r EXCEPT !.pc = "getOCRStatus", !.polls = 0]]
             /\ UNCHANGED cacheVars
          \/ ClassifyDecide(s, r, <<>>)
    /\ hist' = NoHist
    /\ UNCHANGED <<remoteVars, limit, pureVars>>

\* waitForOCR: one await getOCRStatus (polls counts the checks made, ocrStatus
\* is the status of the last one: 'completed', 'failed', any other status as
\* 'processing', and 'error' when the call failed)
ClassifyOCRStatus(s) ==
    /\ At(s, "classify", "getOCRStatus")
    /\ LET r == [reqs[s] EXCEPT !.polls = @ + 1]
       IN \/ /\ reqs' = [reqs EXCEPT ![s] =
                   [r EXCEPT !.pc = "getOCRText", !.ocrStatus = "completed"]]
             /\ UNCHANGED cacheVars
          \/ \E status \in {"failed", "error"} :
                ClassifyDecide(s, [r EXCEPT !.ocrStatus = status], <<>>)
          \/ /\ reqs' = [reqs EXCEPT ![s] = [r EXCEPT !.pc = "sleep", !.ocrStatus = "processing"]]
             /\ UNCHANGED cacheVars
    /\ hist' = NoHist
    /\ UNCHANGED <<remoteVars, limit, pureVars>>

\* waitForOCR making one check more than maxAttempts
ClassifyOCRSleepInclusive(s) ==
    /\ At(s, "classify", "sleep")
    /\ LET r == reqs[s]
       IN IF r.polls <= OcrMaxAttempts
          THEN /\ reqs' = [reqs EXCEPT ![s] = [r EXCEPT !.pc = "getOCRStatus"]]
               /\ UNCHANGED cacheVars
          ELSE ClassifyDecide(s, r, <<>>)
    /\ hist' = NoHist
    /\ UNCHANGED <<remoteVars, limit, pureVars>>

\* waitForOCR: the two seconds are over; the next check, or the timeout
ClassifyOCRSleep(s) ==
    /\ At(s, "classify", "sleep")
    /\ LET r == reqs[s]
       IN IF r.polls < OcrMaxAttempts
          THEN /\ reqs' = [reqs EXCEPT ![s] = [r EXCEPT !.pc = "getOCRStatus"]]
               /\ UNCHANGED cacheVars
          ELSE ClassifyDecide(s, r, <<>>)
    /\ hist' = NoHist
    /\ UNCHANGED <<remoteVars, limit, pureVars>>

\* waitForOCR: await getOCRText; a failure gives null
ClassifyOCRText(s, OcrTexts) ==
    /\ At(s, "classify", "getOCRText")
    /\ LET r == Call(reqs[s], "getOCRText")
       IN \E ocrText \in {Some(t) : t \in OcrTexts} \cup {undefined} :
            ClassifyDecide(s, [r EXCEPT !.ocrText = ocrText],
                           IF OcrTextIsMeaningful(ocrText) THEN Val(ocrText) ELSE <<>>)
    /\ hist' = NoHist
    /\ UNCHANGED <<remoteVars, limit, pureVars>>

\* await classifyEvidence(text || filename, ...): chatCompletion fails (500),
\* or answers and the classification is written
ClassifyLLM(s, Answers) ==
    /\ At(s, "classify", "chatCompletion")
    /\ LET r == Call(reqs[s], "chatCompletion")
       IN \/ \E content \in Answers :
                ClassifyWrite(s, r, classifyEvidence(content), r.text)
          \/ ClassifyFail(s, r)
    /\ hist' = NoHist
    /\ UNCHANGED <<remoteVars, limit, pureVars>>

----------------------------------------------------------------------------
(* app/api/vaults/[vaultId]/evidence/[evidenceId]/route.ts: DELETE *)

\* the item ensureEvidenceSynced creates for a listed object
EnsuredItem(obj) ==
    PendingItem(obj.id, obj.filename, obj.contentType, obj.ingestionStatus,
                obj.createdAt)

RECURSIVE EnsureAll(_, _, _)
EnsureAll(c, vaultId, objects) ==
    IF objects = <<>> THEN c
    ELSE EnsureAll(addEvidence(c, vaultId, EnsuredItem(Head(objects))), vaultId,
                   Tail(objects))

\* evidence = getEvidence(...) or the first record with that objectId or id;
\* found: on to the remote delete, else 404
DeleteFind(r, c) ==
    LET evidence == FindLocal(c, TheVault, r.evidenceId)
    IN IF IsDefined(evidence)
       THEN [r EXCEPT !.pc = "deleteVaultObject", !.evidence = evidence]
       ELSE Finish(r, [Response(404) EXCEPT !.error = "Evidence not found"])

\* success only when both deletions succeeded
DeleteSucceededBoth(deleted, vaultDeleteSuccess) == deleted /\ vaultDeleteSuccess

\* the response is a success unless neither deletion succeeded
DeleteSucceeded(deleted, vaultDeleteSuccess) == deleted \/ vaultDeleteSuccess

\* ensureEvidenceSynced lists the vault only when the cache holds no record
DeleteStart(s, Ids) ==
    \E evidenceId \in Ids :
        /\ CanStart(s)
        /\ LET r == [kind |-> "delete", pc |-> "listVaultObjects",
                     evidenceId |-> evidenceId, evidence |-> undefined,
                     remoteDeleted |-> FALSE, response |-> undefined]
           IN reqs' = [reqs EXCEPT ![s] =
                 IF getAllEvidence(TheCache, TheVault) # <<>>
                 THEN DeleteFind(r, TheCache) ELSE r]
        /\ SetCache(getVaultStore(TheCache, TheVault))
        /\ hist' = NoHist
        /\ UNCHANGED <<remoteVars, limit, pureVars>>

\* ensureEvidenceSynced: await listVaultObjects (a failure is logged)
DeleteEnsure(s) ==
    /\ At(s, "delete", "listVaultObjects")
    /\ \E ok \in BOOLEAN :
         LET c == IF ok THEN EnsureAll(TheCache, TheVault, ListedObjects) ELSE TheCache
         IN /\ SetCache(c)
            /\ reqs' = [reqs EXCEPT ![s] = DeleteFind(reqs[s], c)]
    /\ hist' = NoHist
    /\ UNCHANGED <<remoteVars, limit, pureVars>>

\* await deleteVaultObject (a failure is logged), then deleteEvidence and the
\* response
DeleteVault(s) ==
    /\ At(s, "delete", "deleteVaultObject")
    /\ LET r == reqs[s]
           evidence == Val(r.evidence)
           deleted == deleteEvidenceResult(TheCache, TheVault, evidence.id)
       IN \E vaultDeleteSuccess \in BOOLEAN :
            /\ vaultDeleteSuccess => IsDefined(RemoteObject(evidence.objectId))
            /\ remote' = IF vaultDeleteSuccess
                         THEN [remote EXCEPT ![evidence.objectId].present = FALSE]
                         ELSE remote
            /\ SetCache(deleteEvidence(TheCache, TheVault, evidence.id))
            /\ reqs' = [reqs EXCEPT ![s] =
                  Finish([r EXCEPT !.remoteDeleted = vaultDeleteSuccess],
                     IF DeleteSucceeded(deleted, vaultDeleteSuccess)
                     THEN [Response(200) EXCEPT !.success = TRUE]
                     ELSE [Response(500) EXCEPT !.error = "Failed to delete evidence"])]
    /\ hist' = NoHist
    /\ UNCHANGED <<nextObj, limit, pureVars>>

----------------------------------------------------------------------------
(* The cache on its own: every exported operation, on two vaults *)

\* hist watches one key: the addEvidence or deleteEvidence last chosen to be
\* watched, forgotten as soon as another operation names the same key
Forget(h, vaultId, ids) ==
    IF h.op # "none" /\ h.vault = vaultId /\ h.id \in ids THEN NoHist ELSE h

\* the record ids the cache is exercised with
StoreIds == {1, 2}

StoreItems ==
    {[PendingItem(id, PdfName, PdfType, "processing", CreatedAt) EXCEPT !.tags = tl]
        : id \in StoreIds, tl \in {<<>>, <<TagA>>}}

StoreAdd ==
    \E v \in Vaults, e \in StoreItems :
        /\ SetCache(addEvidence(TheCache, v, e))
        /\ hist' \in {Watch("add", v, e.id, Some(e)), Forget(hist, v, {e.id})}
        /\ UNCHANGED <<remoteVars, reqs, limit, pureVars>>

StoreGet ==
    \E v \in Vaults :
        /\ ~MapHas(store, v)
        /\ SetCache(getVaultStore(TheCache, v))
        /\ UNCHANGED <<hist, remoteVars, reqs, limit, pureVars>>

StoreUpdate ==
    \E v \in Vaults, id \in StoreIds, tl \in {<<>>, <<TagA>>} :
        /\ SetCache(updateEvidence(TheCache, v, id, [tags |-> tl]))
        /\ hist' = Forget(hist, v, {id})
        /\ UNCHANGED <<remoteVars, reqs, limit, pureVars>>

StoreDelete ==
    \E v \in Vaults, id \in StoreIds :
        /\ SetCache(deleteEvidence(TheCache, v, id))
        /\ hist' \in {Watch("del", v, id, undefined), Forget(hist, v, {id})}
        /\ UNCHANGED <<remoteVars, reqs, limit, pureVars>>

StoreAddBulk ==
    \E v \in Vaults, items \in [1..2 -> StoreItems] :
        /\ SetCache(addBulkEvidence(TheCache, v, AsTuple(items)))
        /\ hist' = Forget(hist, v, {items[i].id : i \in 1..Len(items)})
        /\ UNCHANGED <<remoteVars, reqs, limit, pureVars>>

StoreBulkTags ==
    \E v \in Vaults, ids \in SUBSET StoreIds, add \in {<<>>, <<TagA>>},
       rem \in {<<>>, <<TagA>>} :
        /\ SetCache(updateBulkTags(TheCache, v, SetToSeq(ids), add, rem))
        /\ hist' = Forget(hist, v, ids)
        /\ UNCHANGED <<remoteVars, reqs, limit, pureVars>>

StoreClear ==
    \E v \in Vaults :
        /\ SetCache(clearVaultEvidence(TheCache, v))
        /\ hist' = Forget(hist, v, StoreIds)
        /\ UNCHANGED <<remoteVars, reqs, limit, pureVars>>

InitStore ==
    /\ store = EmptyStore /\ file = EmptyStore /\ diskOk = TRUE
    /\ hist = NoHist
    /\ remote = NoRemote /\ nextObj = 0
    /\ reqs = NoRequests /\ limit = 0
    /\ filters = NoFilters /\ result = NoResult /\ client = NoClient

NextStore ==
    \/ StoreAdd \/ StoreGet \/ StoreUpdate \/ StoreDelete
    \/ StoreAddBulk \/ StoreBulkTags \/ StoreClear

SpecStore == InitStore /\ [][NextStore]_vars

----------------------------------------------------------------------------
(* filterEvidence on its own: fixture records, every combination of filters *)

Day10 == <<"2", "0", "2", "4", "-", "0", "1", "-", "1", "0">>
Day12 == <<"2", "0", "2", "4", "-", "0", "1", "-", "1", "2">>
Day14 == <<"2", "0", "2", "4", "-", "0", "1", "-", "1", "4">>
\* new Date().toISOString() at ten o'clock of that day
TimeOfDay == <<"T", "1", "0", ":", "0", "0", ":", "0", "0", ".", "0", "0", "0", "Z">>
Stamp10 == Day10 \o TimeOfDay
Stamp12 == Day12 \o TimeOfDay
Stamp14 == Day14 \o TimeOfDay

TagUpper == <<"B", "a">>

FilterItems ==
    { EvidenceItem(1, 1, <<"a", ".", "p", "d", "f">>, PdfType, "contract", <<TagA>>,
                   Num(85), undefined, Some(<<"B", "a">>), Some(Day10), "completed",
                   Stamp14),
      EvidenceItem(2, 2, PdfName, PdfType, "email", <<TagB>>, Num(50),
                   Some(<<"x", "A", "x">>), undefined, undefined, "completed", Stamp12),
      EvidenceItem(3, 3, PngName, PngType, "photo", <<>>, Num(50), undefined,
                   Some(<<>>), Some(Day12), "completed", Stamp10),
      EvidenceItem(4, 4, PdfName, PdfType, "contract", <<TagB, TagUpper>>, Num(0),
                   undefined, undefined, Some(Day14), "processing", Stamp10),
      EvidenceItem(5, 5, PngName, PngType, "other", <<TagA, TagB>>, Num(0), undefined,
                   undefined, undefined, "processing", Stamp14) }

FilterStates ==
    [categories : {<<>>, <<"contract">>, <<"contract", "photo">>},
     tags : {<<>>, <<TagA>>, <<TagA, TagB>>},
     dateRange : [start : {undefined, Some(Day12)},
                  end : {undefined, Some(Day12), Some(Day14)}],
     searchQuery : {<<>>, <<"a">>, <<"B">>},
     sortBy : {"date", "relevance", "name"},
     sortOrder : {"asc", "desc"}]


InitFilter ==
    /\ \E S \in SUBSET FilterItems :
          LET c == addBulkEvidence(Cache(EmptyStore, EmptyStore, TRUE), "v1", SetToSeq(S))
          IN store = c.mem /\ file = c.disk
    /\ diskOk = TRUE
    /\ filters \in FilterStates
    /\ client = NoClient
    /\ result = NoResult
    /\ hist = NoHist
    /\ remote = NoRemote /\ nextObj = 0
    /\ reqs = NoRequests /\ limit = 0

\* GET /vaults/{id}/evidence without sync: the filtered, sorted list
FilterApply ==
    /\ result = NoResult
    /\ result' = Some(filterEvidence(TheCache, "v1", filters))
    /\ UNCHANGED <<cacheVars, hist, remoteVars, reqs, limit, filters, client>>

NextFilter == FilterApply

SpecFilter == InitFilter /\ [][NextFilter]_vars

CategoryMatches(item, f) ==
    f.categories = <<>> \/ item.category \in Range(f.categories)

TagMatches(item, f) ==
    f.tags = <<>> \/ Range(f.tags) \cap Range(item.tags) # {}

DateMatches(item, f) ==
    /\ Truthy(f.dateRange.start) => ~StrLess(ItemDate(item), Val(f.dateRange.start))
    /\ Truthy(f.dateRange.end) => ~StrLess(Val(f.dateRange.end), ItemDate(item))

TextMatches(item, f) ==
    \/ f.searchQuery = <<>>
    \/ \E s \in {item.filename} \cup Range(item.summary) \cup Range(item.extractedText)
                \cup Range(item.tags) :
          includes(toLowerCase(s), toLowerCase(f.searchQuery))

\* C7: filterEvidence returns exactly the records of the vault that satisfy
\* the category filter and the tag filter and the date filter and the text
\* filter, each once; an empty category or tag set restricts nothing, and a
\* non-empty one is satisfied by any one of its members.
FilterIsConjunction ==
    result # NoResult =>
        LET all == getAllEvidence(TheCache, "v1")
            out == Val(result)
        IN /\ Range(out) =
                {item \in Range(all) :
                    /\ CategoryMatches(item, filters) /\ TagMatches(item, filters)
                    /\ DateMatches(item, filters) /\ TextMatches(item, filters)}
           /\ NoDuplicates(out)

\* records of categories contract and email, categories = [contract, photo]:
\* exactly the contract record is returned
FilterWitness ==
    /\ result # NoResult
    /\ {item.category : item \in Range(getAllEvidence(TheCache, "v1"))}
          = {"contract", "email"}
    /\ filters.categories = <<"contract", "photo">>
    /\ filters.tags = <<>> /\ filters.searchQuery = <<>>
    /\ filters.dateRange = [start |-> undefined, end |-> undefined]
    /\ Len(Val(result)) = 1 /\ Val(result)[1].category = "contract"

\* C8: after addEvidence(c, r), getEvidence(c, r.id) returns r, and after
\* deleteEvidence(c, id), getEvidence(c, id) returns undefined, as long as no
\* later operation names that id in that vault, whatever was done to other
\* ids and other vaults in between.
PutGetRoundTrip ==
    /\ hist.op = "add" => getEvidence(TheCache, hist.vault, hist.id) = hist.item
    /\ hist.op = "del" => getEvidence(TheCache, hist.vault, hist.id) = undefined

\* the watched record was added, and later another record was put before it
\* in the same vault's Map and the other vault was written to
PutGetWitness ==
    /\ hist.op = "add"
    /\ Len(VaultMap(TheCache, hist.vault)) = 2
    /\ VaultMap(TheCache, hist.vault)[2].key = hist.id
    /\ \E w \in MapKeys(store) :
          w # hist.vault /\ Len(VaultMap(TheCache, w)) > 0

\* the watched record was deleted while another record stayed in its vault
DeleteGetWitness ==
    /\ hist.op = "del"
    /\ Len(VaultMap(TheCache, hist.vault)) > 0

----------------------------------------------------------------------------
(* The service: uploads, list-with-sync, classify and tag requests, one
   request at a time, while the vault service moves on *)

PdfFile == [name |-> PdfName, type |-> <<>>]
PngFile == [name |-> PngName, type |-> PngType]

SummaryText == <<"a", "b", "c">>
DocumentText == <<"t", "x", "t">>

\* what the model's answer parses to
GoodAnswer ==
    Some(Parsed(Some("contract"), Some(<<TagA>>), Some(SummaryText), Some(Day12),
                Some(Num(85))))
EmptyAnswer == Some(Parsed(undefined, undefined, undefined, undefined, undefined))
NoJsonAnswer == undefined

\* what the object's metadata may hold
NoMetadata == <<undefined, NoMeta>>
CategoryOnlyMetadata ==
    <<Some(EtMeta(Some("email"), undefined, undefined, undefined, undefined)), NoMeta>>
FullMetadata ==
    <<undefined, EtMeta(Some("report"), Some(<<TagB>>), Some(SummaryText), Some(Day10),
                        Some(Num(70)))>>

Init ==
    /\ store = EmptyStore /\ file = EmptyStore /\ diskOk = TRUE
    /\ hist = NoHist
    /\ remote = NoRemote /\ nextObj = 0
    /\ limit = 1 /\ reqs = <<Idle>>
    /\ filters = NoFilters /\ result = NoResult /\ client = NoClient

Next ==
    \/ \E s \in SlotIds :
          \/ UploadStart(s, {<<PdfFile>>}, MaxObjects)
          \/ UploadGetUrl(s)
          \/ UploadToS3(s)
          \/ UploadRegister(s)
          \/ SyncList(s)
          \/ ClassifyStart(s, ObjectIds)
          \/ ClassifyList(s)
          \/ ClassifyStatus(s)
          \/ ClassifyTrigger(s)
          \/ ClassifyText(s, {DocumentText})
          \/ ClassifyLLM(s, {GoodAnswer, EmptyAnswer})
          \/ TagsPost(s, {TagA})
          \/ Respond(s)
    \/ EnvStatus({"pending", "processing", "completed"})
    \/ EnvMetadata({NoMetadata, CategoryOnlyMetadata, FullMetadata})

Spec == Init /\ [][Next]_vars

\* the cache after the step
TheCacheAfter == Cache(store', file', diskOk')

LocalIds == {e.id : e \in Range(getAllEvidence(TheCache, TheVault))}

Local(id) == Val(getEvidence(TheCache, TheVault, id))
LocalAfter(id) == Val(getEvidence(TheCacheAfter, TheVault, id))

\* the step is a list request with sync=true
SyncStep == \E s \in Slots : SyncList(s)

\* C1: once a record's local ingestionStatus is 'completed', a resync leaves
\* it 'completed', whatever status the vault's object list reports for it.
CompletedIsKeptBySync ==
    [][SyncStep =>
        \A id \in LocalIds :
            Local(id).ingestionStatus = "completed" =>
                /\ IsDefined(getEvidence(TheCacheAfter, TheVault, id))
                /\ LocalAfter(id).ingestionStatus = "completed"]_vars

\* a resync has just run over a completed record whose object the vault
\* lists as 'processing' or 'pending'
CompletedIsKeptWitness ==
    /\ hist = Synced
    /\ \E id \in LocalIds :
          /\ Local(id).ingestionStatus = "completed"
          /\ IsDefined(RemoteObject(id))
          /\ Val(RemoteObject(id)).ingestionStatus \in {"pending", "processing"}

ClassificationOf(item) ==
    <<item.category, item.tags, item.summary, item.dateDetected, item.relevanceScore>>

\* the object's metadata lacks part of the classification, or its ingestion
\* is not completed
WeakerOrIncomplete(obj) ==
    \/ obj.ingestionStatus # "completed"
    \/ ~hasClassification(obj)
    \/ \E f \in {"et_tags", "et_summary", "et_relevance_score"} :
          ~IsDefined(MetaOf(obj)[f]) /\ ~IsDefined(obj.et[f])

\* C2: a resync does not replace the category, tags, summary, dateDetected or
\* relevanceScore of a completed record by values from a remote object whose
\* state is weaker or incomplete.
CompletedClassificationIsKeptBySync ==
    [][SyncStep =>
        \A id \in LocalIds :
            /\ Local(id).ingestionStatus = "completed"
            /\ IsDefined(RemoteObject(id))
            /\ WeakerOrIncomplete(Val(RemoteObject(id)))
            => /\ IsDefined(getEvidence(TheCacheAfter, TheVault, id))
               /\ ClassificationOf(LocalAfter(id)) = ClassificationOf(Local(id))]_vars

----------------------------------------------------------------------------
(* Tag edits and classification writes on an uploaded document *)

TagUnderscore == <<"a", "_", "b">>
TagSpace == <<"a", " ", "b">>

\* an answer whose tags differ only in their separators
SeparatorTagsAnswer ==
    Some(Parsed(Some("email"), Some(<<TagUnderscore, TagSpace>>), Some(SummaryText),
                undefined, Some(Num(85))))

NextTags ==
    \/ \E s \in SlotIds :
          \/ UploadStart(s, {<<PdfFile>>}, MaxObjects)
          \/ UploadGetUrl(s)
          \/ UploadToS3(s)
          \/ UploadRegister(s)
          \/ ClassifyStart(s, ObjectIds)
          \/ ClassifyList(s)
          \/ ClassifyStatus(s)
          \/ ClassifyTrigger(s)
          \/ ClassifyText(s, {DocumentText})
          \/ ClassifyLLM(s, {GoodAnswer, SeparatorTagsAnswer})
          \/ TagsPut(s, TagLists)
          \/ TagsPost(s, Tags)
          \/ TagsDelete(s, Tags)
          \/ BulkTags(s, {<<>>, <<TagA>>, <<TagB, TagB>>})
          \/ Respond(s)
    \/ EnvStatus({"completed"})

SpecTags == Init /\ [][NextTags]_vars

\* C3: after any tag edit and any classification write, no record's tag list
\* holds two equal strings.
TagsHaveNoDuplicates ==
    \A e \in Range(getAllEvidence(TheCache, TheVault)) : NoDuplicates(e.tags)

----------------------------------------------------------------------------
(* Classify requests on an uploaded document or image *)

Chars(n) == AsTuple([i \in 1..n |-> "x"])

\* OCR texts: none, and around the length that counts as meaningful
OcrTexts ==
    {<<>>, Chars(MeaningfulLength), Chars(MeaningfulLength + 1),
     <<" ">> \o Chars(MeaningfulLength) \o <<" ">>}

ScoreAnswer(score) ==
    Some(Parsed(Some("report"), Some(<<TagB>>), Some(SummaryText), undefined, score))

\* scores above and below the range, 0, a string, and none
ScoreAnswers ==
    {ScoreAnswer(Some(Num(150))), ScoreAnswer(Some(Num(-5))),
     ScoreAnswer(Some(Num(0))), ScoreAnswer(Some(Str(1))), ScoreAnswer(undefined)}

NextClassify ==
    \/ \E s \in SlotIds :
          \/ UploadStart(s, {<<PdfFile>>, <<PngFile>>}, MaxObjects)
          \/ UploadGetUrl(s)
          \/ UploadToS3(s)
          \/ UploadRegister(s)
          \/ ClassifyStart(s, ObjectIds)
          \/ ClassifyList(s)
          \/ ClassifyStatus(s)
          \/ ClassifyTrigger(s)
          \/ ClassifyText(s, {DocumentText})
          \/ ClassifyDownloadUrl(s)
          \/ ClassifyProcessOCR(s)
          \/ ClassifyOCRStatus(s)
          \/ ClassifyOCRSleep(s)
          \/ ClassifyOCRText(s, OcrTexts)
          \/ ClassifyLLM(s, {GoodAnswer, EmptyAnswer, NoJsonAnswer} \cup ScoreAnswers)
          \/ Respond(s)
    \/ EnvStatus({"processing", "completed", "extraction_failed", "failed"})

SpecClassify == Init /\ [][NextClassify]_vars

\* C4: the relevanceScore the classify route stores is a number within 0..100.
StoredScoreIsWithinRange ==
    \A e \in Range(getAllEvidence(TheCache, TheVault)) :
        /\ e.relevanceScore.t = "number"
        /\ e.relevanceScore.v \in 0..100

\* the classify requests that have their response
ClassifyDone == {s \in Slots : reqs[s].kind = "classify" /\ reqs[s].pc = "done"}

\* the request found its record in the cache and the vault answered that the
\* (non-image) object is being processed
AnsweredProcessing(r) ==
    /\ IsDefined(r.evidence) /\ ~isImageFile(Val(r.evidence).contentType)
    /\ "listVaultObjects" \notin Range(r.calls)
    /\ r.status = "processing"

\* C5: classify on a non-image record of the cache whose remote ingestion
\* status is 'processing' answers 400 with status 'processing', calls neither
\* the text fetch nor the Classification Service, and leaves the record as it
\* was.
ProcessingIsAnswered400 ==
    \A s \in ClassifyDone :
        AnsweredProcessing(reqs[s]) =>
            /\ Val(reqs[s].response).code = 400
            /\ Val(reqs[s].response).status = "processing"
            /\ reqs[s].calls = <<"getObjectStatus">>
            /\ getEvidence(TheCache, TheVault, Val(reqs[s].evidence).id) = reqs[s].evidence

ProcessingIsAnswered400Witness ==
    \E s \in ClassifyDone :
        /\ AnsweredProcessing(reqs[s])
        /\ Val(reqs[s].evidence).category = "other"
        /\ Val(reqs[s].evidence).ingestionStatus = "processing"

\* the request got as far as the OCR of an image, and waitForOCR returned
\* null (failure, timeout) or the empty string, or OCR could not be started
OcrGaveNothing(r) ==
    /\ IsDefined(r.evidence) /\ isImageFile(Val(r.evidence).contentType)
    /\ r.status # ""
    /\ ~Truthy(r.ocrText)

\* C6: for an image whose OCR yields the empty string, fails or times out,
\* classify stores category 'photo', a tag list with 'photograph',
\* relevanceScore 50 and ingestionStatus 'completed', and never calls the
\* Classification Service.
NoOcrTextIsPhoto ==
    \A s \in ClassifyDone :
        OcrGaveNothing(reqs[s]) =>
            LET stored == getEvidence(TheCache, TheVault, Val(reqs[s].evidence).id)
            IN /\ "chatCompletion" \notin Range(reqs[s].calls)
               /\ IsDefined(stored)
               /\ Val(stored).category = "photo"
               /\ PhotoTags[2] \in Range(Val(stored).tags)
               /\ Val(stored).relevanceScore = Num(50)
               /\ Val(stored).ingestionStatus = "completed"

\* OCR answered the empty string
NoOcrTextWitness ==
    \E s \in ClassifyDone :
        OcrGaveNothing(reqs[s]) /\ reqs[s].ocrText = Some(<<>>)

\* OCR never completed: every one of the checks answered 'processing'
OcrTimeoutWitness ==
    \E s \in ClassifyDone :
        OcrGaveNothing(reqs[s]) /\ reqs[s].polls = OcrMaxAttempts

----------------------------------------------------------------------------
(* DELETE requests, with uploads and resyncs in between *)

NextDelete ==
    \/ \E s \in SlotIds :
          \/ UploadStart(s, {<<PdfFile>>, <<PngFile>>}, MaxObjects)
          \/ UploadGetUrl(s)
          \/ UploadToS3(s)
          \/ UploadRegister(s)
          \/ SyncList(s)
          \/ DeleteStart(s, ObjectIds)
          \/ DeleteEnsure(s)
          \/ DeleteVault(s)
          \/ Respond(s)
    \/ EnvStatus({"processing", "completed"})

SpecDelete == Init /\ [][NextDelete]_vars

DeleteDone == {s \in Slots : reqs[s].kind = "delete" /\ reqs[s].pc = "done"}

\* C9: a DELETE of a record the cache holds answers success and leaves the
\* record absent from the cache, whether deleteVaultObject succeeds or fails.
DeleteOfLocalRecordSucceeds ==
    \A s \in DeleteDone :
        IsDefined(reqs[s].evidence) =>
            /\ Val(reqs[s].response).code = 200
            /\ Val(reqs[s].response).success
            /\ ~IsDefined(getEvidence(TheCache, TheVault, Val(reqs[s].evidence).id))

\* the remote deletion failed
DeleteWitness ==
    \E s \in DeleteDone :
        /\ IsDefined(reqs[s].evidence)
        /\ ~reqs[s].remoteDeleted
        /\ IsDefined(RemoteObject(Val(reqs[s].evidence).objectId))

----------------------------------------------------------------------------
(* Bulk uploads *)

NextUpload ==
    \E s \in SlotIds :
        \/ UploadStart(s, SeqsUpTo({PdfFile, PngFile}, MaxFiles), MaxFiles)
        \/ UploadGetUrl(s)
        \/ UploadToS3(s)
        \/ UploadRegister(s)
        \/ Respond(s)

SpecUpload == Init /\ [][NextUpload]_vars

UploadDone ==
    {s \in Slots : reqs[s].kind = "upload" /\ reqs[s].pc = "done" /\ Len(reqs[s].files) > 0}

Registered(objectId) ==
    IsDefined(objectId) /\ IsDefined(getEvidence(TheCache, TheVault, Val(objectId)))

\* C10: an upload of n files answers n outcomes in the order of the files,
\* each 'uploaded' or 'failed'; a file whose upload target or byte transfer
\* failed is 'failed' and has no record, and every other file is registered.
UploadReportsEachFile ==
    \A s \in UploadDone :
        LET r == reqs[s]
            results == Val(r.response).results
        IN /\ Len(results) = Len(r.files)
           /\ \A i \in 1..Len(results) :
                /\ results[i].filename = r.files[i].name
                /\ results[i].status \in {"uploaded", "failed"}
                /\ results[i].status = "failed" => ~Registered(r.assigned[i])
                /\ results[i].status = "uploaded" =>
                      Registered(r.assigned[i]) /\ results[i].objectId = r.assigned[i]

\* the first file failed and the second was uploaded and registered
UploadWitness ==
    \E s \in UploadDone :
        LET results == Val(reqs[s].response).results
        IN /\ Len(results) = 2
           /\ results[1].status = "failed" /\ results[2].status = "uploaded"
           /\ Registered(reqs[s].assigned[2])

----------------------------------------------------------------------------
(* POST /vaults/{id}/search *)

\* the characters of the category names
CategoryChars ==
    [contract |-> <<"c", "o", "n", "t", "r", "a", "c", "t">>,
     email |-> <<"e", "m", "a", "i", "l">>,
     photo |-> <<"p", "h", "o", "t", "o">>,
     handwritten_note |-> <<"h", "a", "n", "d", "w", "r", "i", "t", "t", "e", "n", "_", "n", "o", "t", "e">>,
     medical_record |-> <<"m", "e", "d", "i", "c", "a", "l", "_", "r", "e", "c", "o", "r", "d">>,
     financial_document |-> <<"f", "i", "n", "a", "n", "c", "i", "a", "l", "_", "d", "o", "c", "u", "m", "e", "n", "t">>,
     legal_filing |-> <<"l", "e", "g", "a", "l", "_", "f", "i", "l", "i", "n", "g">>,
     correspondence |-> <<"c", "o", "r", "r", "e", "s", "p", "o", "n", "d", "e", "n", "c", "e">>,
     report |-> <<"r", "e", "p", "o", "r", "t">>,
     other |-> <<"o", "t", "h", "e", "r">>]

\* a chunk of the vault's answer; hybridScore counts thousandths
SearchChunk(object_id, hybridScore) == [object_id |-> object_id, hybridScore |-> hybridScore]

\* searchVault threw
SearchFailed == [ok |-> FALSE, chunks |-> <<>>]
SearchResponse(chunks) == [ok |-> TRUE, chunks |-> chunks]

\* scoreMap: for each object the highest score of its chunks that is above
\* the score the Map holds, or above 0 while it holds none
RECURSIVE ScoreMap(_)
ScoreMap(chunks) ==
    IF chunks = <<>> THEN <<>>
    ELSE LET scoreMap == ScoreMap(SubSeq(chunks, 1, Len(chunks) - 1))
             chunk == chunks[Len(chunks)]
             currentScore == OrElse(MapGet(scoreMap, chunk.object_id), 0)
         IN IF chunk.hybridScore > currentScore
            THEN MapSet(scoreMap, chunk.object_id, chunk.hybridScore)
            ELSE scoreMap

\* Math.round(score * 100) of a score in thousandths: halves round up
RoundTimes100(score) == (score + 5) \div 10

\* {...e, searchRelevance}
Ranked(e, searchRelevance) == [item |-> e, searchRelevance |-> searchRelevance]

\* sort((a, b) => b.searchRelevance - a.searchRelevance): stable
RECURSIVE SortByRelevance(_)
SortByRelevance(items) ==
    IF items = <<>> THEN <<>>
    ELSE LET init == SortByRelevance(SubSeq(items, 1, Len(items) - 1))
             x == items[Len(items)]
             k == Cardinality({i \in 1..Len(init) :
                     \E j \in i..Len(init) : init[j].searchRelevance >= x.searchRelevance})
         IN SubSeq(init, 1, k) \o <<x>> \o SubSeq(init, k + 1, Len(init))

\* the records the chunks score, ranked by their score
SemanticRanked(allEvidence, chunks) ==
    LET scoreMap == ScoreMap(chunks)
        scored == SelectSeq(allEvidence, LAMBDA e : MapHas(scoreMap, e.objectId))
    IN SortByRelevance(AsTuple([i \in 1..Len(scored) |->
           Ranked(scored[i], RoundTimes100(OrElse(MapGet(scoreMap, scored[i].objectId), 0)))]))

TagIncludes(e, queryLower) ==
    \E i \in 1..Len(e.tags) : includes(toLowerCase(e.tags[i]), queryLower)

\* the filter of the local text search
LocalMatch(e, queryLower) ==
    \/ includes(toLowerCase(e.filename), queryLower)
    \/ OptIncludes(e.summary, queryLower)
    \/ OptIncludes(e.extractedText, queryLower)
    \/ TagIncludes(e, queryLower)
    \/ includes(toLowerCase(CategoryChars[e.category]), queryLower)

Min(a, b) == IF a < b THEN a ELSE b

\* the score of the local text search
LocalScore(e, queryLower) ==
    Min(30 + (IF includes(toLowerCase(e.filename), queryLower) THEN 30 ELSE 0)
           + (IF OptIncludes(e.summary, queryLower) THEN 20 ELSE 0)
           + (IF TagIncludes(e, queryLower) THEN 15 ELSE 0),
        100)

LocalRanked(allEvidence, query) ==
    LET queryLower == toLowerCase(query)
        matched == SelectSeq(allEvidence, LAMBDA e : LocalMatch(e, queryLower))
    IN SortByRelevance(AsTuple([i \in 1..Len(matched) |->
           Ranked(matched[i], LocalScore(matched[i], queryLower))]))

SearchAnswer(code, evidence, chunks) ==
    [code |-> code, evidence |-> evidence, chunks |-> chunks, total |-> Len(evidence)]

\* the search handler's answer to a query, given what searchVault did
searchRoute(c, vaultId, query, searchVault) ==
    IF query = <<>> THEN SearchAnswer(400, <<>>, <<>>)
    ELSE LET allEvidence == getAllEvidence(c, vaultId)
             useSemanticSearch == searchVault.ok /\ searchVault.chunks # <<>>
             semantic == IF useSemanticSearch
                         THEN SemanticRanked(allEvidence, searchVault.chunks)
                         ELSE <<>>
             rankedEvidence == IF semantic = <<>>
                               THEN LocalRanked(allEvidence, query)
                               ELSE semantic
         IN SearchAnswer(200, rankedEvidence,
                         IF useSemanticSearch THEN searchVault.chunks ELSE <<>>)

\* fixture records: a match in the filename, in a tag, in the summary, in the
\* category and in the extracted text
NameBa == <<"b", "a", ".", "p", "d", "f">>
SearchItems ==
    { EvidenceItem(1, 1, NameBa, PdfType, "contract", <<>>, Num(85), undefined,
                   undefined, undefined, "completed", Stamp14),
      EvidenceItem(2, 2, PdfName, PdfType, "email", <<TagB, TagUpper>>, Num(50),
                   undefined, undefined, undefined, "completed", Stamp12),
      EvidenceItem(3, 3, PngName, PngType, "photo", <<>>, Num(50), undefined,
                   Some(<<"x", "B", "A">>), undefined, "completed", Stamp10),
      EvidenceItem(4, 4, PdfName, PdfType, "other", <<TagA>>, Num(0), undefined,
                   undefined, undefined, "processing", Stamp10),
      EvidenceItem(5, 5, PngName, PngType, "report", <<>>, Num(20),
                   Some(<<"a", "b", "a">>), undefined, undefined, "completed", Stamp14),
      EvidenceItem(6, 6, NameBa, PdfType, "contract", <<TagUpper>>, Num(70),
                   Some(<<"b", "a">>), Some(<<"B", "a">>), undefined, "completed",
                   Stamp12) }

MaxChunks == 2
SearchQueries == {<<>>, <<"B", "a">>, <<"t", "h">>}
\* chunks of the records 1 and 2 and of object 7, which the cache does not hold
SearchChunks ==
    {SearchChunk(o, s) : o \in {1, 2, 7}, s \in {0, 404, 905, 1500}}
SearchRequests ==
    [query : SearchQueries,
     searchVault : {SearchFailed}
                   \cup {SearchResponse(chunks) : chunks \in SeqsUpTo(SearchChunks, MaxChunks)}]

InitSearch ==
    /\ \E S \in SUBSET SearchItems :
          LET c == addBulkEvidence(Cache(EmptyStore, EmptyStore, TRUE), "v1", SetToSeq(S))
          IN store = c.mem /\ file = c.disk
    /\ diskOk = TRUE
    /\ filters \in SearchRequests
    /\ client = NoClient
    /\ result = NoResult
    /\ hist = NoHist
    /\ remote = NoRemote /\ nextObj = 0
    /\ reqs = NoRequests /\ limit = 0

SearchApply ==
    /\ result = NoResult
    /\ result' = Some(searchRoute(TheCache, "v1", filters.query, filters.searchVault))
    /\ SetCache(getVaultStore(TheCache, "v1"))
    /\ UNCHANGED <<hist, remoteVars, reqs, limit, filters, client>>

NextSearch == SearchApply

SpecSearch == InitSearch /\ [][NextSearch]_vars

SearchAnswered == IsDefined(result) /\ Val(result).code = 200
SearchEvidence == Val(result).evidence
SearchLocal == getAllEvidence(TheCache, "v1")
SearchIsSorted ==
    \A i, j \in 1..Len(SearchEvidence) :
        i < j => SearchEvidence[i].searchRelevance >= SearchEvidence[j].searchRelevance
\* the record is in the answer n times
SearchReturns(e, n) ==
    Cardinality({i \in 1..Len(SearchEvidence) : SearchEvidence[i].item = e}) = n

NameHasQuery(e) == includes(toLowerCase(e.filename), toLowerCase(filters.query))
SummaryHasQuery(e) ==
    \E s \in Range(e.summary) : includes(toLowerCase(s), toLowerCase(filters.query))
TextHasQuery(e) ==
    \E s \in Range(e.extractedText) : includes(toLowerCase(s), toLowerCase(filters.query))
TagHasQuery(e) ==
    \E s \in Range(e.tags) : includes(toLowerCase(s), toLowerCase(filters.query))
HeuristicScore(e) ==
    Min(100, 30 + (IF NameHasQuery(e) THEN 30 ELSE 0) + (IF SummaryHasQuery(e) THEN 20 ELSE 0)
                + (IF TagHasQuery(e) THEN 15 ELSE 0))

\* C11: when the vault's search fails or returns no chunks, the answer holds
\* exactly the local records whose filename, summary, extracted text or some
\* tag contains the query without regard to case, each once and with
\* searchRelevance = min(100, 30 + 30 for the filename + 20 for the summary
\* + 15 for a tag), in descending order of that score; a record matching in
\* the filename comes before one matching only in a tag.
LocalSearchReturnsTextMatches ==
    (SearchAnswered /\ (~filters.searchVault.ok \/ filters.searchVault.chunks = <<>>)) =>
        /\ \A e \in Range(SearchLocal) :
              SearchReturns(e, IF NameHasQuery(e) \/ SummaryHasQuery(e) \/ TextHasQuery(e)
                                  \/ TagHasQuery(e) THEN 1 ELSE 0)
        /\ \A i \in 1..Len(SearchEvidence) :
              /\ SearchEvidence[i].item \in Range(SearchLocal)
              /\ SearchEvidence[i].searchRelevance = HeuristicScore(SearchEvidence[i].item)
        /\ SearchIsSorted
        /\ \A i, j \in 1..Len(SearchEvidence) :
              (/\ NameHasQuery(SearchEvidence[i].item)
               /\ TagHasQuery(SearchEvidence[j].item)
               /\ ~NameHasQuery(SearchEvidence[j].item)
               /\ ~SummaryHasQuery(SearchEvidence[j].item)
               /\ ~TextHasQuery(SearchEvidence[j].item)) => i < j

ChunkScores(e) ==
    {filters.searchVault.chunks[i].hybridScore :
        i \in {j \in 1..Len(filters.searchVault.chunks) :
                  filters.searchVault.chunks[j].object_id = e.objectId}}
MaxOf(S) == CHOOSE x \in S : \A y \in S : y <= x

\* C12: when the vault's search returns chunks, the answer holds exactly the
\* local records whose objectId some chunk names, each once and with
\* searchRelevance = the highest score of its chunks scaled to an integer,
\* in descending order; every searchRelevance is within 0..100.
SemanticSearchReturnsScoredRecords ==
    (SearchAnswered /\ filters.searchVault.ok /\ filters.searchVault.chunks # <<>>) =>
        /\ \A e \in Range(SearchLocal) :
              SearchReturns(e, IF ChunkScores(e) # {} THEN 1 ELSE 0)
        /\ \A i \in 1..Len(SearchEvidence) :
              /\ SearchEvidence[i].item \in Range(SearchLocal)
              /\ ChunkScores(SearchEvidence[i].item) # {}
              /\ SearchEvidence[i].searchRelevance
                    = RoundTimes100(MaxOf(ChunkScores(SearchEvidence[i].item)))
              /\ SearchEvidence[i].searchRelevance \in 0..100
        /\ SearchIsSorted

----------------------------------------------------------------------------
(* Uploads, resyncs, deletes and classify requests on documents: records that
   the cache lacks while the vault holds the object, and requests for an id
   nothing holds *)

\* the ids a request may name: the objects and one id nothing holds
RequestIds == 1..(MaxObjects + 1)

NextRecords ==
    \/ \E s \in SlotIds :
          \/ UploadStart(s, {<<PdfFile>>}, MaxObjects)
          \/ UploadGetUrl(s)
          \/ UploadToS3(s)
          \/ UploadRegister(s)
          \/ SyncList(s)
          \/ DeleteStart(s, RequestIds)
          \/ DeleteEnsure(s)
          \/ DeleteVault(s)
          \/ ClassifyStart(s, RequestIds)
          \/ ClassifyList(s)
          \/ ClassifyStatus(s)
          \/ ClassifyTrigger(s)
          \/ ClassifyText(s, {DocumentText})
          \/ ClassifyLLM(s, {GoodAnswer, EmptyAnswer})
          \/ TagsPost(s, {TagA})
          \/ Respond(s)
    \/ EnvStatus({"pending", "processing", "completed"})

SpecRecords == Init /\ [][NextRecords]_vars

LocalRecords == Range(getAllEvidence(TheCache, TheVault))
CacheUnchanged ==
    /\ getAllEvidence(TheCacheAfter, TheVault) = getAllEvidence(TheCache, TheVault)
    /\ file' = file
ObjectIsListed(id) == \E i \in 1..Len(remote) : remote[i].present /\ remote[i].obj.id = id
Answered404(r) == r.kind = "classify" /\ IsDefined(r.response) /\ Val(r.response).code = 404

\* a classify request starts: the two lookups in the cache
ClassifyLooksUpLocally(s) ==
    (reqs[s].kind = "idle" /\ reqs'[s].kind = "classify") =>
        LET id == reqs'[s].evidenceId
            found == reqs'[s].evidence
        IN /\ CacheUnchanged
           /\ ~Answered404(reqs'[s])
           /\ IF \E e \in LocalRecords : e.id = id
              THEN IsDefined(found) /\ Val(found) \in LocalRecords /\ Val(found).id = id
              ELSE IF \E e \in LocalRecords : e.objectId = id
              THEN IsDefined(found) /\ Val(found) \in LocalRecords /\ Val(found).objectId = id
              ELSE ~IsDefined(found) /\ reqs'[s].pc = "listVaultObjects"

\* the third lookup: the vault's object list
ClassifyLooksUpRemotely(s) ==
    (reqs[s].kind = "classify" /\ reqs[s].pc = "listVaultObjects" /\ reqs'[s] # reqs[s]) =>
        LET id == reqs[s].evidenceId
            found == reqs'[s].evidence
        IN /\ \/ Answered404(reqs'[s]) /\ CacheUnchanged
              \/ /\ ObjectIsListed(id)
                 /\ ~IsDefined(reqs'[s].response)
                 /\ IsDefined(found)
                 /\ Val(found).id = id /\ Val(found).objectId = id
                 /\ Val(found).category = "other" /\ Val(found).tags = <<>>
                 /\ getEvidence(TheCacheAfter, TheVault, id) = found
           /\ ~ObjectIsListed(id) => Answered404(reqs'[s])

\* 404 is the answer of no other step of the request
ClassifyAnswers404Only(s) ==
    (reqs[s].kind = "classify" /\ ~Answered404(reqs[s]) /\ Answered404(reqs'[s])) =>
        /\ reqs[s].pc = "listVaultObjects"
        /\ ~IsDefined(reqs[s].evidence)
        /\ ~\E e \in LocalRecords : e.id = reqs[s].evidenceId \/ e.objectId = reqs[s].evidenceId

\* C13: a classify request takes the record the cache holds under the id,
\* else a cached record with that objectId, else the object of that id in the
\* vault's list, which it registers as a fresh record (id = objectId = the
\* object's id, category 'other', no tags); it answers 404 when and only when
\* none of the three finds anything, and then the cache's records and its
\* file are what they were.
ClassifyResolvesOrAnswers404 ==
    [][\A s \in Slots :
          /\ ClassifyLooksUpLocally(s)
          /\ ClassifyLooksUpRemotely(s)
          /\ ClassifyAnswers404Only(s)]_vars

\* a 404 for an id nothing holds, while the cache holds another record
ClassifyAnswers404Witness ==
    \E s \in ClassifyDone :
        /\ Answered404(reqs[s])
        /\ "listVaultObjects" \in Range(reqs[s].calls)
        /\ LocalRecords # {}

\* a request that registered its record from the vault's list
ClassifyRegisteredWitness ==
    \E s \in Slots :
        /\ reqs[s].kind = "classify" /\ reqs[s].pc = "getObjectStatus"
        /\ "listVaultObjects" \in Range(reqs[s].calls)
        /\ IsDefined(reqs[s].evidence)

----------------------------------------------------------------------------
(* app/api/vaults/[vaultId]/evidence/[evidenceId]/route.ts: GET, which
   classifies a record that has no classification yet (classifyIfNeeded) *)

needsClassification(evidence) ==
    evidence.category = "other" /\ ~Truthy(evidence.summary) /\ Len(evidence.tags) = 0

\* the updates classifyIfNeeded hands to updateEvidence
AutoClassifyUpdates(classification) ==
    [category |-> classification.category,
     tags |-> classification.suggestedTags,
     summary |-> Some(classification.summary),
     dateDetected |-> classification.dateDetected,
     relevanceScore |-> classification.relevanceScore,
     ingestionStatus |-> "completed"]

\* the metadata classifyIfNeeded hands to updateObjectMetadata, as the vault
\* lists it afterwards
MirroredMetadata(classification) ==
    EtMeta(Some(classification.category), Some(classification.suggestedTags),
           Some(classification.summary), Some(OrElse(classification.dateDetected, <<>>)),
           Some(classification.relevanceScore))

\* classifyIfNeeded has returned: an image still needs its download URL
GetReturn(r, evidence) ==
    IF isImageFile(evidence.contentType)
    THEN [r EXCEPT !.pc = "getDownloadUrl", !.evidence = Some(evidence)]
    ELSE Finish([r EXCEPT !.evidence = Some(evidence)],
                [Response(200) EXCEPT !.evidence = Some(evidence)])

GetStart(s, Ids) ==
    \E evidenceId \in Ids :
        /\ CanStart(s)
        /\ LET evidence == FindLocal(TheCache, TheVault, evidenceId)
               r == [kind |-> "get", pc |-> "getObjectStatus", evidenceId |-> evidenceId,
                     evidence |-> evidence, text |-> <<>>, calls |-> <<>>,
                     classification |-> undefined, response |-> undefined]
           IN reqs' = [reqs EXCEPT ![s] =
                IF ~IsDefined(evidence)
                THEN Finish(r, [Response(404) EXCEPT !.error = "Evidence not found"])
                ELSE IF needsClassification(Val(evidence)) THEN r
                ELSE GetReturn(r, Val(evidence))]
        /\ SetCache(getVaultStore(TheCache, TheVault))
        /\ hist' = NoHist
        /\ UNCHANGED <<remoteVars, limit, pureVars>>

\* classifyIfNeeded: await getObjectStatus
GetStatus(s) ==
    /\ At(s, "get", "getObjectStatus")
    /\ LET r == Call(reqs[s], "getObjectStatus")
           obj == RemoteObject(Val(r.evidence).objectId)
       IN reqs' = [reqs EXCEPT ![s] =
            IF IsDefined(obj) /\ Val(obj).ingestionStatus = "completed"
            THEN [r EXCEPT !.pc = "getObjectText"]
            ELSE GetReturn(r, Val(r.evidence))]
    /\ hist' = NoHist
    /\ UNCHANGED <<cacheVars, remoteVars, limit, pureVars>>

\* classifyIfNeeded: await getObjectText; a failure returns the record as it is
GetText(s, Texts) ==
    /\ At(s, "get", "getObjectText")
    /\ LET r == Call(reqs[s], "getObjectText")
       IN \/ \E text \in Texts \cup {<<>>} :
                reqs' = [reqs EXCEPT ![s] = [r EXCEPT !.pc = "chatCompletion", !.text = text]]
          \/ reqs' = [reqs EXCEPT ![s] = GetReturn(r, Val(r.evidence))]
    /\ hist' = NoHist
    /\ UNCHANGED <<cacheVars, remoteVars, limit, pureVars>>

\* classifyIfNeeded: await classifyWithLLM, then updateEvidence
GetLLM(s, Answers) ==
    /\ At(s, "get", "chatCompletion")
    /\ LET r == Call(reqs[s], "chatCompletion")
           id == Val(r.evidence).id
       IN \/ \E content \in Answers :
                LET classification == classifyEvidence(content)
                    updates == AutoClassifyUpdates(classification)
                    updated == updateEvidenceResult(TheCache, TheVault, id, updates)
                IN /\ SetCache(updateEvidence(TheCache, TheVault, id, updates))
                   /\ reqs' = [reqs EXCEPT ![s] =
                         [r EXCEPT !.pc = "updateObjectMetadata",
                                   !.classification = Some(classification),
                                   !.evidence = Some(OrElse(updated, Val(r.evidence)))]]
          \/ /\ reqs' = [reqs EXCEPT ![s] = GetReturn(r, Val(r.evidence))]
             /\ UNCHANGED cacheVars
    /\ hist' = NoHist
    /\ UNCHANGED <<remoteVars, limit, pureVars>>

\* classifyIfNeeded: await updateObjectMetadata; the vault stores the metadata
\* nested or at the top level of the object, or the call fails and is logged
GetMirror(s) ==
    /\ At(s, "get", "updateObjectMetadata")
    /\ LET r == Call(reqs[s], "updateObjectMetadata")
           id == Val(r.evidence).objectId
           meta == MirroredMetadata(Val(r.classification))
       IN /\ reqs' = [reqs EXCEPT ![s] = GetReturn(r, Val(r.evidence))]
          /\ \/ /\ IsDefined(RemoteObject(id))
                /\ \/ remote' = [remote EXCEPT ![id].obj.metadata = Some(meta)]
                   \/ remote' = [remote EXCEPT ![id].obj.et = meta]
             \/ UNCHANGED remote
    /\ hist' = NoHist
    /\ UNCHANGED <<cacheVars, nextObj, limit, pureVars>>

\* an image: await getObjectStatus for the download URL; a failure is logged
GetDownloadUrl(s) ==
    /\ At(s, "get", "getDownloadUrl")
    /\ LET r == Call(reqs[s], "getObjectStatus")
       IN reqs' = [reqs EXCEPT ![s] = Finish(r, [Response(200) EXCEPT !.evidence = r.evidence])]
    /\ hist' = NoHist
    /\ UNCHANGED <<cacheVars, remoteVars, limit, pureVars>>

----------------------------------------------------------------------------
(* Classifications written by classify requests and by GET *)

NextMirror ==
    \/ \E s \in SlotIds :
          \/ UploadStart(s, {<<PdfFile>>, <<PngFile>>}, MaxObjects)
          \/ UploadGetUrl(s)
          \/ UploadToS3(s)
          \/ UploadRegister(s)
          \/ SyncList(s)
          \/ ClassifyStart(s, ObjectIds)
          \/ ClassifyList(s)
          \/ ClassifyStatus(s)
          \/ ClassifyTrigger(s)
          \/ ClassifyText(s, {DocumentText})
          \/ ClassifyLLM(s, {GoodAnswer, EmptyAnswer})
          \/ GetStart(s, RequestIds)
          \/ GetStatus(s)
          \/ GetText(s, {DocumentText})
          \/ GetLLM(s, {GoodAnswer, EmptyAnswer})
          \/ GetMirror(s)
          \/ GetDownloadUrl(s)
          \/ Respond(s)
    \/ EnvStatus({"processing", "completed"})

SpecMirror == Init /\ [][NextMirror]_vars

\* the request has written a classification into the cache
PersistedByClassify(r) ==
    /\ r.kind = "classify" /\ r.pc = "done"
    /\ Val(r.response).code = 200 /\ IsDefined(Val(r.response).classification)
PersistedByGet(r) ==
    /\ r.kind = "get" /\ r.pc \in {"getDownloadUrl", "done"}
    /\ IsDefined(r.classification)
IsClassified(id, classification) ==
    /\ IsDefined(getEvidence(TheCache, TheVault, id))
    /\ Local(id).category = classification.category
    /\ Local(id).tags = classification.suggestedTags
    /\ Local(id).ingestionStatus = "completed"

\* C14: every request that has written a classification into the cache has
\* then called updateObjectMetadata for the object (et_category, et_tags,
\* et_summary, et_date_detected, et_relevance_score); whether or not that call
\* succeeded, the cached record holds the classification and the answer is a
\* success.
ClassificationIsMirrored ==
    \A s \in Slots :
        /\ PersistedByClassify(reqs[s]) =>
              /\ "updateObjectMetadata" \in Range(reqs[s].calls)
              /\ IsClassified(Val(reqs[s].evidence).id, Val(Val(reqs[s].response).classification))
        /\ PersistedByGet(reqs[s]) =>
              /\ "updateObjectMetadata" \in Range(reqs[s].calls)
              /\ IsClassified(Val(reqs[s].evidence).id, Val(reqs[s].classification))
              /\ reqs[s].pc = "done" => Val(reqs[s].response).code = 200

----------------------------------------------------------------------------
(* app/page.tsx: classifyEvidence, the page's retry loop for one uploaded file *)

ClientMaxAttempts == 24

\* the state of the loop and the file's entry of uploadProgress
ClientState(pc, evidenceId, attempts, ingestionComplete, lastError, requests, status, progress, error) ==
    [pc |-> pc, evidenceId |-> evidenceId, attempts |-> attempts,
     ingestionComplete |-> ingestionComplete, lastError |-> lastError,
     requests |-> requests, status |-> status, progress |-> progress, error |-> error]

\* handleFileUpload has set the entry to 'processing' and called classifyEvidence
ClientStarted(evidenceId) ==
    ClientState("sleep", evidenceId, 0, FALSE, "", 0, "processing", 75, "")

\* what fetch gave: whether it resolved, the status code, whether the body is
\* JSON, and the body's status and error properties
FetchAnswer(resolved, code, json, status, error) ==
    [resolved |-> resolved, code |-> code, json |-> json, status |-> status, error |-> error]

HttpError(code) ==
    CASE code = 404 -> "HTTP 404" [] code = 500 -> "HTTP 500" [] OTHER -> "HTTP"

\* the loop's test with the budget off by one
ClientLoopContinuesInclusive(c) == c.attempts <= ClientMaxAttempts /\ ~c.ingestionComplete

\* while (attempts < maxAttempts && !ingestionComplete)
ClientLoopContinues(c) == c.attempts < ClientMaxAttempts /\ ~c.ingestionComplete

\* the body of the loop's try block, on what fetch gave
ClientOnAnswer(c, a) ==
    IF ~a.resolved THEN [c EXCEPT !.lastError = "Network error"]
    ELSE IF a.code \in 200..299
    THEN IF a.json
         THEN [c EXCEPT !.ingestionComplete = TRUE, !.status = "completed", !.progress = 100]
         ELSE [c EXCEPT !.lastError = "Network error"]
    ELSE IF a.code = 400
    THEN IF a.json
         THEN [c EXCEPT !.lastError = IF a.status # "" THEN a.status ELSE "processing"]
         ELSE [c EXCEPT !.lastError = "Network error"]
    ELSE [c EXCEPT !.lastError = IF a.json /\ a.error # "" THEN a.error ELSE HttpError(a.code)]

\* attempts++, the five seconds' wait and the progress update
ClientSleep ==
    /\ client.pc = "sleep" /\ ClientLoopContinues(client)
    /\ client' = [client EXCEPT !.pc = "fetch", !.attempts = @ + 1, !.status = "processing",
                                !.progress = Min(90, 50 + ((client.attempts + 1) * 2))]
    /\ UNCHANGED <<cacheVars, hist, remoteVars, reqs, limit, filters, result>>

\* await fetch(.../classify, POST), answered in any of the ways of Answers
ClientFetch(Answers) ==
    /\ client.pc = "fetch"
    /\ \E a \in Answers :
          client' = [ClientOnAnswer(client, a) EXCEPT !.pc = "sleep", !.requests = @ + 1]
    /\ UNCHANGED <<cacheVars, hist, remoteVars, reqs, limit, filters, result>>

\* the loop is left: without success the entry says 'Processing in background'
ClientExit ==
    /\ client.pc = "sleep" /\ ~ClientLoopContinues(client)
    /\ client' = IF client.ingestionComplete THEN [client EXCEPT !.pc = "finished"]
                 ELSE [client EXCEPT !.pc = "finished", !.status = "completed",
                                     !.progress = 100, !.error = "Processing in background"]
    /\ UNCHANGED <<cacheVars, hist, remoteVars, reqs, limit, filters, result>>

\* every answer the classify endpoint or the network can give
FetchAnswers ==
    { FetchAnswer(FALSE, 0, FALSE, "", ""),
      FetchAnswer(TRUE, 200, TRUE, "", ""),
      FetchAnswer(TRUE, 200, FALSE, "", ""),
      FetchAnswer(TRUE, 400, TRUE, "processing", "Document is still processing"),
      FetchAnswer(TRUE, 400, TRUE, "pending", "Document is still processing"),
      FetchAnswer(TRUE, 400, TRUE, "", ""),
      FetchAnswer(TRUE, 400, FALSE, "", ""),
      FetchAnswer(TRUE, 404, TRUE, "", "Evidence not found"),
      FetchAnswer(TRUE, 500, TRUE, "", "Failed to classify evidence"),
      FetchAnswer(TRUE, 500, FALSE, "", "") }

InitClient ==
    /\ store = EmptyStore /\ file = EmptyStore /\ diskOk = TRUE
    /\ hist = NoHist
    /\ remote = NoRemote /\ nextObj = 0
    /\ limit = 0 /\ reqs = NoRequests
    /\ filters = NoFilters /\ result = NoResult
    /\ client = ClientStarted(1)

NextClient == ClientSleep \/ ClientFetch(FetchAnswers) \/ ClientExit

\* timers fire and every fetch settles
SpecClient == InitClient /\ [][NextClient]_vars /\ WF_vars(NextClient)

ClientLoopIsBounded ==
    /\ client.requests <= 24
    /\ client.status # "failed"
    /\ client.pc = "finished" =>
          /\ client.status = "completed"
          /\ IF client.ingestionComplete THEN client.error = ""
             ELSE client.requests = 24 /\ client.error = "Processing in background"

\* C15: the page's loop for one uploaded file issues at most 24 classify
\* requests and none after a successful answer; it never marks the upload
\* failed, and after 24 requests without success it marks it completed with
\* 'Processing in background'; whatever the answers are, the loop ends.
ClientLoopTerminates ==
    /\ []ClientLoopIsBounded
    /\ [][client.ingestionComplete => client'.requests = client.requests]_vars
    /\ <>(client.pc = "finished")

\* the budget is used up without a successful answer
ClientBudgetExhaustedWitness ==
    /\ client.pc = "finished" /\ ~client.ingestionComplete
    /\ client.requests = 24 /\ client.error = "Processing in background"

----------------------------------------------------------------------------
(* waitForOCR: classify requests on an uploaded image *)

\* a step of waitForOCR
OCRStep ==
    \E s \in SlotIds :
        ClassifyOCRStatus(s) \/ ClassifyOCRSleep(s) \/ ClassifyOCRText(s, OcrTexts)

NextOCR ==
    \/ \E s \in SlotIds :
          \/ UploadStart(s, {<<PngFile>>}, MaxObjects)
          \/ UploadGetUrl(s)
          \/ UploadToS3(s)
          \/ UploadRegister(s)
          \/ ClassifyStart(s, ObjectIds)
          \/ ClassifyList(s)
          \/ ClassifyStatus(s)
          \/ ClassifyDownloadUrl(s)
          \/ ClassifyProcessOCR(s)
          \/ ClassifyLLM(s, {GoodAnswer})
          \/ Respond(s)
    \/ OCRStep

\* OCRStep with the outcome "getOCRText returns a text worth classifying"
\* written first: the same steps as OCRStep, in an order that lets the
\* enabledness of the step be decided by an outcome that writes nothing
OCRTextWorthClassifying(s) ==
    /\ At(s, "classify", "getOCRText")
    /\ LET r == Call(reqs[s], "getOCRText")
       IN \E t \in OcrTexts :
            /\ OcrTextIsMeaningful(Some(t))
            /\ ClassifyDecide(s, [r EXCEPT !.ocrText = Some(t)], t)
    /\ hist' = NoHist
    /\ UNCHANGED <<remoteVars, limit, pureVars>>

OCRStepOrdered ==
    \E s \in SlotIds :
        \/ ClassifyOCRStatus(s)
        \/ ClassifyOCRSleep(s)
        \/ OCRTextWorthClassifying(s)
        \/ ClassifyOCRText(s, OcrTexts)

\* every awaited OCR call settles and the two-second timer fires
SpecOCR == Init /\ [][NextOCR]_vars /\ WF_vars(OCRStepOrdered)

InWaitForOCR(s) ==
    /\ s \in Slots /\ reqs[s].kind = "classify"
    /\ reqs[s].pc \in {"getOCRStatus", "sleep", "getOCRText"}

\* waitForOCR was called and has returned (or thrown)
WaitForOCRReturned(r) ==
    /\ r.kind = "classify" /\ "processOCR" \in Range(r.calls) /\ r.polls > 0
    /\ r.pc \notin {"getOCRStatus", "sleep", "getOCRText"}

\* the checks of a request never exceed 30; text is fetched only after a
\* check that said 'completed'; 'failed' and 30 other statuses give null
OcrWaitIsBounded ==
    \A s \in Slots :
        reqs[s].kind = "classify" =>
            /\ reqs[s].polls <= 30
            /\ reqs[s].pc = "getOCRText" => reqs[s].ocrStatus = "completed"
            /\ reqs[s].pc = "sleep" => reqs[s].ocrStatus = "processing"
            /\ WaitForOCRReturned(reqs[s]) =>
                  /\ "getOCRText" \in Range(reqs[s].calls) <=> reqs[s].ocrStatus = "completed"
                  /\ reqs[s].ocrStatus # "completed" => reqs[s].ocrText = undefined
                  /\ reqs[s].ocrStatus = "processing" => reqs[s].polls = 30

\* no check follows one that said 'completed' or 'failed'
OcrWaitStopsAtTerminal(s) ==
    (/\ reqs[s].kind = "classify" /\ reqs'[s].kind = "classify"
     /\ reqs[s].ocrStatus \in {"completed", "failed"}) =>
        reqs'[s].polls = reqs[s].polls /\ reqs'[s].ocrStatus = reqs[s].ocrStatus

\* C16 as stated: waitForOCR returns the OCR text whenever a check reported
\* 'completed'.
OcrWaitReturnsTextWhenCompleted ==
    \A s \in Slots :
        (WaitForOCRReturned(reqs[s]) /\ reqs[s].ocrStatus = "completed") =>
            IsDefined(reqs[s].ocrText)

\* C16: waitForOCR makes at most 30 status checks; at the first check that
\* reports 'completed' it stops checking and returns what getOCRText gives
\* (the text, or null when that call fails); at the first 'failed' it returns
\* null; after 30 checks with other statuses it returns null; when every
\* awaited call settles it always returns.
OcrWaitTerminates ==
    /\ []OcrWaitIsBounded
    /\ [][\A s \in Slots : OcrWaitStopsAtTerminal(s)]_vars
    /\ \A s \in SlotIds : InWaitForOCR(s) ~> ~InWaitForOCR(s)

\* 'completed' after checks that said 'processing', and the text was fetched
OcrWaitWitness ==
    \E s \in Slots :
        /\ WaitForOCRReturned(reqs[s]) /\ reqs[s].ocrStatus = "completed"
        /\ reqs[s].polls > 1 /\ Truthy(reqs[s].ocrText)

----------------------------------------------------------------------------
(* The ids of cached records *)

\* the entries (key, record) of the vault's Map in a store
CachedEntries(mem) == IF MapHas(mem, TheVault) THEN Val(MapGet(mem, TheVault)) ELSE <<>>

\* every record has id = objectId and sits under the key equal to its id
IdIsObjectId ==
    \A i \in 1..Len(CachedEntries(store)) :
        LET entry == CachedEntries(store)[i]
        IN entry.val.id = entry.val.objectId /\ entry.key = entry.val.id

\* a record that stays in the cache keeps its id and its objectId
IdIsKept ==
    \A i \in 1..Len(CachedEntries(store)), j \in 1..Len(CachedEntries(store')) :
        LET before == CachedEntries(store)[i]
            after == CachedEntries(store')[j]
        IN before.key = after.key =>
              after.val.id = before.val.id /\ after.val.objectId = before.val.objectId

\* C17: every record the upload, the resync, the delete-time sync or the
\* classify fallback has put in the cache has id equal to its objectId and is
\* stored under the key equal to its id, and no later step (classify, tag
\* edit, resync) changes the id or the objectId of a record.
RecordIdsAreObjectIds == []IdIsObjectId /\ [][IdIsKept]_vars

\* a record that was classified (by an answer naming no tags) and then
\* tagged by the user
RecordIdsWitness ==
    /\ IdIsObjectId
    /\ \E i \in 1..Len(CachedEntries(store)) :
          LET e == CachedEntries(store)[i].val
          IN /\ e.category = "other"
             /\ IsDefined(e.extractedText)
             /\ e.ingestionStatus = "completed"
             /\ TagA \in Range(e.tags)

----------------------------------------------------------------------------
(* The cache on a disk whose writes may fail: the mutating operations on one
   vault *)

\* fs.writeFileSync starts to throw (disk full, directory not writable) or
\* works again
DiskChange ==
    /\ diskOk' = ~diskOk
    /\ UNCHANGED <<store, file, hist, remoteVars, reqs, limit, pureVars>>

BulkLists == {AsTuple(items) : items \in [1..2 -> StoreItems]}
IdLists == {SetToSeq(ids) : ids \in SUBSET StoreIds}
TagChanges == {<<>>, <<TagA>>}

\* the cache operation of a step
DiskStep(c) ==
    /\ SetCache(c)
    /\ UNCHANGED <<hist, remoteVars, reqs, limit, pureVars>>

DiskAdd == \E e \in StoreItems : DiskStep(addEvidence(TheCache, TheVault, e))
DiskUpdate ==
    \E id \in StoreIds, tl \in TagChanges :
        DiskStep(updateEvidence(TheCache, TheVault, id, [tags |-> tl]))
DiskDelete == \E id \in StoreIds : DiskStep(deleteEvidence(TheCache, TheVault, id))
DiskAddBulk == \E items \in BulkLists : DiskStep(addBulkEvidence(TheCache, TheVault, items))
DiskBulkTags ==
    \E ids \in IdLists, add \in TagChanges, rem \in TagChanges :
        DiskStep(updateBulkTags(TheCache, TheVault, ids, add, rem))
DiskClear == DiskStep(clearVaultEvidence(TheCache, TheVault))

NextDisk ==
    \/ DiskAdd \/ DiskUpdate \/ DiskDelete \/ DiskAddBulk \/ DiskBulkTags \/ DiskClear
    \/ DiskChange

SpecDisk == InitStore /\ [][NextDisk]_vars


\* the record a store holds under an id of the vault
RecordIn(mem, id) == MapGet(CachedEntries(mem), id)

\* the step is the cache operation with result c
IsStep(c) == store' = c.mem /\ file' = c.disk /\ diskOk' = diskOk

\* a write that succeeds leaves the document of the whole memory in the file,
\* one that fails leaves the file as it was
FileFollows == IF diskOk THEN file' = StoreToJSON(store') ELSE file' = file

AddPost(e) == RecordIn(store', e.id) = Some(e) /\ FileFollows
UpdatePost(id, tl) ==
    IsDefined(RecordIn(store, id)) =>
        /\ RecordIn(store', id) = Some([Val(RecordIn(store, id)) EXCEPT !.tags = tl])
        /\ FileFollows
DeletePost(id) ==
    IsDefined(RecordIn(store, id)) => ~IsDefined(RecordIn(store', id)) /\ FileFollows
AddBulkPost(items) ==
    /\ \A i \in 1..Len(items) :
          (\A j \in (i + 1)..Len(items) : items[j].id # items[i].id) =>
              RecordIn(store', items[i].id) = Some(items[i])
    /\ FileFollows
BulkTagsPost(ids, add, rem) ==
    /\ \A id \in Range(ids) :
          IsDefined(RecordIn(store, id)) =>
              /\ IsDefined(RecordIn(store', id))
              /\ \A t \in Range(add) : t \in Range(Val(RecordIn(store', id)).tags)
              /\ \A t \in Range(rem) \ Range(add) :
                    t \notin Range(Val(RecordIn(store', id)).tags)
    /\ FileFollows
ClearPost == ~MapHas(store', TheVault) /\ FileFollows

\* C18: after addEvidence, updateEvidence of an existing id, deleteEvidence
\* of an existing id, addBulkEvidence, updateBulkTags and clearVaultEvidence
\* the memory holds the mutation whether or not the file could be written,
\* and when the write succeeds the file holds the document of the whole
\* in-memory state (a failed write changes nothing in the file).
CacheWritesAreFull ==
    [][/\ \A e \in StoreItems :
             IsStep(addEvidence(TheCache, TheVault, e)) => AddPost(e)
       /\ \A id \in StoreIds, tl \in TagChanges :
             IsStep(updateEvidence(TheCache, TheVault, id, [tags |-> tl])) =>
                 UpdatePost(id, tl)
       /\ \A id \in StoreIds :
             IsStep(deleteEvidence(TheCache, TheVault, id)) => DeletePost(id)
       /\ \A items \in BulkLists :
             IsStep(addBulkEvidence(TheCache, TheVault, items)) => AddBulkPost(items)
       /\ \A ids \in IdLists, add \in TagChanges, rem \in TagChanges :
             IsStep(updateBulkTags(TheCache, TheVault, ids, add, rem)) =>
                 BulkTagsPost(ids, add, rem)
       /\ IsStep(clearVaultEvidence(TheCache, TheVault)) => ClearPost]_vars

\* writes fail and the memory holds a tagged record the file lacks
CacheWriteFailedWitness ==
    /\ ~diskOk
    /\ IsDefined(RecordIn(store, 1))
    /\ Val(RecordIn(store, 1)).tags = <<TagA>>
    /\ file = EmptyStore

----------------------------------------------------------------------------
(* Images: the photo path and the Classification Service *)

\* the trimmed length of the text waitForOCR returned (null: no text)
OcrTrimmedLength(r) == IF Truthy(r.ocrText) THEN Len(trim(Val(r.ocrText))) ELSE 0

\* the request was answered with the fixed photo classification and the
\* Classification Service was not called
PhotoPathTaken(r) ==
    /\ "chatCompletion" \notin Range(r.calls) /\ r.pc # "chatCompletion"
    /\ IsDefined(r.response) /\ Val(r.response).code = 200
    /\ Val(Val(r.response).classification).category = "photo"
    /\ Val(Val(r.response).evidence).category = "photo"

\* the Classification Service is called, or was, with the OCR text
ServiceCalledWithOcrText(r) ==
    /\ r.pc = "chatCompletion" \/ "chatCompletion" \in Range(r.calls)
    /\ Truthy(r.ocrText) /\ r.text = Val(r.ocrText)

\* C19 as stated: the photo path is taken exactly when the OCR text has fewer
\* than 20 trimmed characters; with 20 or more the Classification Service is
\* called with the OCR text.
PhotoPathBelowTwenty ==
    \A s \in Slots :
        WaitForOCRReturned(reqs[s]) =>
            IF OcrTrimmedLength(reqs[s]) < 20
            THEN PhotoPathTaken(reqs[s])
            ELSE ServiceCalledWithOcrText(reqs[s])

\* C19: for an image whose OCR wait has returned, the photo path is taken
\* exactly when the OCR text has at most 20 trimmed characters (none when the
\* wait returned null); with more than 20 the Classification Service is
\* called with the OCR text.
PhotoPathUpToTwenty ==
    \A s \in Slots :
        WaitForOCRReturned(reqs[s]) =>
            IF OcrTrimmedLength(reqs[s]) <= 20
            THEN PhotoPathTaken(reqs[s])
            ELSE ServiceCalledWithOcrText(reqs[s])

\* an OCR text of exactly 20 characters inside blanks took the photo path
PhotoPathWitness ==
    \E s \in Slots :
        /\ WaitForOCRReturned(reqs[s])
        /\ OcrTrimmedLength(reqs[s]) = 20 /\ Len(Val(reqs[s].ocrText)) > 20
        /\ PhotoPathTaken(reqs[s])

----------------------------------------------------------------------------
(* Documents whose ingestion is pending *)

\* how often a request has called an operation
RECURSIVE CallCount(_, _)
CallCount(calls, name) ==
    IF calls = <<>> THEN 0
    ELSE CallCount(Tail(calls), name) + (IF Head(calls) = name THEN 1 ELSE 0)

\* a classify request on a non-image record whose status read said 'pending'
OnPendingDocument(r) ==
    /\ r.kind = "classify" /\ IsDefined(r.evidence)
    /\ ~isImageFile(Val(r.evidence).contentType)
    /\ r.status = "pending"

\* one trigger at most, exactly one before the answer; the answer is the 400
\* of a document still processing; no text is fetched, no model is asked
PendingIsTriggeredOnce(r) ==
    /\ CallCount(r.calls, "triggerIngestion") <= 1
    /\ "getObjectText" \notin Range(r.calls)
    /\ "chatCompletion" \notin Range(r.calls)
    /\ r.pc \in {"triggerIngestion", "done"}
    /\ r.pc = "triggerIngestion" =>
          /\ CallCount(r.calls, "triggerIngestion") = 0
          /\ r.calls[Len(r.calls)] = "getObjectStatus"
    /\ r.pc = "done" =>
          /\ CallCount(r.calls, "triggerIngestion") = 1
          /\ r.calls[Len(r.calls)] = "triggerIngestion"
          /\ IsDefined(r.triggered)
          /\ r.response = Some([Response(400) EXCEPT
                                   !.error = "Document is still processing",
                                   !.status = "pending"])

\* such a request writes nothing to the cache
PendingWritesNothing ==
    \A s \in Slots :
        (OnPendingDocument(reqs[s]) /\ reqs'[s] # reqs[s]) =>
            store' = store /\ file' = file

\* C20: a classify request on a non-image record whose remote ingestion
\* status is 'pending' issues exactly one ingestion trigger for the record
\* and then answers 400 (still processing) without fetching text, asking the
\* model or writing the cache, whether the trigger succeeds or fails.
PendingDocumentIsTriggeredThenRefused ==
    /\ [](\A s \in Slots : OnPendingDocument(reqs[s]) => PendingIsTriggeredOnce(reqs[s]))
    /\ [][PendingWritesNothing]_vars

\* the trigger failed and the request was answered 400
PendingTriggerFailedWitness ==
    \E s \in Slots :
        /\ OnPendingDocument(reqs[s]) /\ reqs[s].pc = "done"
        /\ reqs[s].triggered = Some(FALSE)
        /\ Val(reqs[s].response).code = 400

----------------------------------------------------------------------------
(* Documents whose extraction failed *)

\* a classify request on a non-image record whose status read said
\* 'extraction_failed'
OnExtractionFailed(r) ==
    /\ r.kind = "classify" /\ IsDefined(r.evidence)
    /\ ~isImageFile(Val(r.evidence).contentType)
    /\ r.status = "extraction_failed"

\* the first argument of classifyEvidence: text || evidence.filename
ClassifyContext(r) == IF r.text # <<>> THEN r.text ELSE Val(r.evidence).filename

\* C21: a classify request on a non-image record whose remote status is
\* 'extraction_failed' is not answered 400 or 404: it goes on to the
\* Classification Service with the filename alone as context (no extracted
\* text) and persists the classification; only a failure of the
\* Classification Service call itself ends it otherwise.
ExtractionFailedUsesFilenameOnly ==
    \A s \in Slots :
        LET r == reqs[s]
        IN OnExtractionFailed(r) =>
              /\ r.pc \in {"getObjectText", "chatCompletion", "done"}
              /\ r.pc # "getObjectText" =>
                    ClassifyContext(r) = Val(r.evidence).filename
              /\ r.pc = "done" =>
                    /\ "chatCompletion" \in Range(r.calls)
                    /\ \/ Val(r.response).code = 500
                       \/ /\ Val(r.response).code = 200
                          /\ IsDefined(Val(r.response).evidence)
                          /\ getEvidence(TheCache, TheVault, Val(r.evidence).id)
                                = Val(r.response).evidence
                          /\ Val(Val(r.response).evidence).ingestionStatus = "completed"

----------------------------------------------------------------------------
(* Which remote statuses let classify mark a document completed *)

\* a step of the classify request in slot s on a non-image record writes the
\* record with ingestionStatus 'completed'
ClassifyMarksCompleted(s) ==
    /\ reqs[s].kind = "classify" /\ reqs'[s] # reqs[s]
    /\ IsDefined(reqs[s].evidence)
    /\ ~isImageFile(Val(reqs[s].evidence).contentType)
    /\ store' # store
    /\ LET after == getEvidence(TheCacheAfter, TheVault, Val(reqs[s].evidence).id)
       IN IsDefined(after) /\ Val(after).ingestionStatus = "completed"

\* C22: a classify request writes a non-image record with ingestionStatus
\* 'completed' only when the remote status it read was 'completed' or
\* 'extraction_failed'; after any other status ('failed', 'processing',
\* 'pending') it does not.
ClassifyCompletesOnlyIngested ==
    [][\A s \in Slots :
          ClassifyMarksCompleted(s) =>
              reqs[s].status \in {"completed", "extraction_failed"}]_vars

----------------------------------------------------------------------------
(* lib/evidence-store: getCategoryCounts, and categories from outside *)

\* EvidenceCategory
Categories == DOMAIN CategoryChars

\* counts[item.category]++ over the ten zeroes: a category that is not a key
\* of counts reads undefined, and undefined++ stores NaN under it
getCategoryCounts(c, vaultId) ==
    LET items == getAllEvidence(c, vaultId)
        keys == Categories \cup {items[i].category : i \in 1..Len(items)}
    IN [k \in keys |->
          IF k \in Categories
          THEN Cardinality({i \in 1..Len(items) : items[i].category = k})
          ELSE "NaN"]

RECURSIVE SumOver(_, _)
SumOver(counts, keys) ==
    IF keys = {} THEN 0
    ELSE LET k == CHOOSE x \in keys : TRUE
         IN counts[k] + SumOver(counts, keys \ {k})

\* an answer of the model, and metadata of the vault, naming a category
\* outside the enumeration
MemoAnswer ==
    Some(Parsed(Some("memo"), Some(<<TagA>>), Some(SummaryText), undefined, Some(Num(85))))
MemoMetadata ==
    <<Some(EtMeta(Some("memo"), undefined, undefined, undefined, undefined)), NoMeta>>

NextCategory ==
    \/ \E s \in SlotIds :
          \/ UploadStart(s, {<<PdfFile>>}, MaxObjects)
          \/ UploadGetUrl(s)
          \/ UploadToS3(s)
          \/ UploadRegister(s)
          \/ SyncList(s)
          \/ DeleteStart(s, ObjectIds)
          \/ DeleteEnsure(s)
          \/ DeleteVault(s)
          \/ ClassifyStart(s, ObjectIds)
          \/ ClassifyList(s)
          \/ ClassifyStatus(s)
          \/ ClassifyTrigger(s)
          \/ ClassifyText(s, {DocumentText})
          \/ ClassifyLLM(s, {GoodAnswer, MemoAnswer})
          \/ Respond(s)
    \/ EnvStatus({"pending", "completed"})
    \/ EnvMetadata({NoMetadata, FullMetadata, MemoMetadata})

SpecCategory == Init /\ [][NextCategory]_vars

\* C23: every record's category is one of the ten enumerated values,
\* whatever category the Classification Service or the vault's metadata
\* names, and the counts of getCategoryCounts are numbers, one per category,
\* that sum to the number of records.
CategoriesAreEnumerated ==
    LET items == getAllEvidence(TheCache, TheVault)
        counts == getCategoryCounts(TheCache, TheVault)
    IN /\ \A i \in 1..Len(items) : items[i].category \in Categories
       /\ DOMAIN counts = Categories
       /\ \A k \in DOMAIN counts : counts[k] \in Nat
       /\ SumOver(counts, DOMAIN counts) = Len(items)

----------------------------------------------------------------------------
(* Ingestion statuses taken from the vault's object list *)

\* EvidenceItem['ingestionStatus']
IngestionStatuses == {"pending", "processing", "completed", "failed"}

NextStatus ==
    \/ \E s \in SlotIds :
          \/ UploadStart(s, {<<PdfFile>>}, MaxObjects)
          \/ UploadGetUrl(s)
          \/ UploadToS3(s)
          \/ UploadRegister(s)
          \/ SyncList(s)
          \/ DeleteStart(s, ObjectIds)
          \/ DeleteEnsure(s)
          \/ DeleteVault(s)
          \/ ClassifyStart(s, ObjectIds)
          \/ ClassifyList(s)
          \/ ClassifyStatus(s)
          \/ ClassifyTrigger(s)
          \/ ClassifyText(s, {DocumentText})
          \/ ClassifyLLM(s, {GoodAnswer})
          \/ Respond(s)
    \/ EnvStatus({"pending", "processing", "completed", "failed", "extraction_failed"})

SpecStatus == Init /\ [][NextStatus]_vars

\* C24: every local record's ingestionStatus is one of pending, processing,
\* completed, failed, whatever status the vault's object list reports during
\* a resync, the delete-time sync or the classify fallback.
IngestionStatusIsEnumerated ==
    \A e \in Range(getAllEvidence(TheCache, TheVault)) :
        e.ingestionStatus \in IngestionStatuses

----------------------------------------------------------------------------
(* Tags of the user and the classifications written later *)

\* the user adds or sets the tag 'b', which no answer of the model suggests;
\* no request removes a tag
NextUserTag ==
    \/ \E s \in SlotIds :
          \/ UploadStart(s, {<<PdfFile>>}, MaxObjects)
          \/ UploadGetUrl(s)
          \/ UploadToS3(s)
          \/ UploadRegister(s)
          \/ SyncList(s)
          \/ TagsPost(s, {TagB})
          \/ TagsPut(s, {<<TagB>>})
          \/ DeleteStart(s, ObjectIds)
          \/ DeleteEnsure(s)
          \/ DeleteVault(s)
          \/ ClassifyStart(s, ObjectIds)
          \/ ClassifyList(s)
          \/ ClassifyStatus(s)
          \/ ClassifyTrigger(s)
          \/ ClassifyText(s, {DocumentText})
          \/ ClassifyLLM(s, {GoodAnswer, EmptyAnswer})
          \/ GetStart(s, ObjectIds)
          \/ GetStatus(s)
          \/ GetText(s, {DocumentText})
          \/ GetLLM(s, {GoodAnswer, EmptyAnswer})
          \/ GetMirror(s)
          \/ Respond(s)
    \/ EnvStatus({"processing", "completed"})

SpecUserTag == Init /\ [][NextUserTag]_vars

\* C25: a tag the user gave a record stays in the record's tag list as long
\* as no tag edit removes it and the record is not deleted; a classify
\* request or an inline classification that completes later keeps it.
UserTagIsKept ==
    [][\A id \in LocalIds :
          (/\ TagB \in Range(Local(id).tags)
           /\ IsDefined(getEvidence(TheCacheAfter, TheVault, id))) =>
              TagB \in Range(LocalAfter(id).tags)]_vars

----------------------------------------------------------------------------
(* Deleted records and the requests that follow *)

\* every response is eventually sent
SpecDeleted == Init /\ [][NextRecords]_vars /\ WF_vars(\E s \in SlotIds : Respond(s))

\* a DELETE request for the record has answered success
DeleteAnswered(id) ==
    \E s \in Slots :
        /\ reqs[s].kind = "delete" /\ reqs[s].pc = "done"
        /\ IsDefined(reqs[s].evidence) /\ Val(reqs[s].evidence).id = id
        /\ Val(reqs[s].response).code = 200

RecordIsCached(id) == IsDefined(getEvidence(TheCache, TheVault, id))

\* C26: once a DELETE request for a record has answered success, no later
\* list with sync, classify or tag request brings a record with that id
\* back into the cache, also when the vault still lists the object because
\* the remote deletion failed.
DeletedStaysDeleted ==
    \A id \in ObjectIds : [](DeleteAnswered(id) => []~RecordIsCached(id))

----------------------------------------------------------------------------
(* Two requests in flight: a delete while a classify request waits *)

InitTwo ==
    /\ store = EmptyStore /\ file = EmptyStore /\ diskOk = TRUE
    /\ hist = NoHist
    /\ remote = NoRemote /\ nextObj = 0
    /\ limit = 2 /\ reqs = <<Idle, Idle>>
    /\ filters = NoFilters /\ result = NoResult /\ client = NoClient

NextRace ==
    \/ \E s \in SlotIds :
          \/ UploadStart(s, {<<PdfFile>>}, MaxObjects)
          \/ UploadGetUrl(s)
          \/ UploadToS3(s)
          \/ UploadRegister(s)
          \/ DeleteStart(s, ObjectIds)
          \/ DeleteEnsure(s)
          \/ DeleteVault(s)
          \/ ClassifyStart(s, ObjectIds)
          \/ ClassifyList(s)
          \/ ClassifyStatus(s)
          \/ ClassifyTrigger(s)
          \/ ClassifyText(s, {DocumentText})
          \/ ClassifyLLM(s, {GoodAnswer})
          \/ Respond(s)
    \/ EnvStatus({"completed"})

SpecRace == InitTwo /\ [][NextRace]_vars


\* the final write of a classify request whose record is gone leaves it gone
ClassifyDoesNotRecreate ==
    \A s \in Slots :
        (/\ reqs[s].kind = "classify" /\ reqs'[s] # reqs[s]
         /\ reqs[s].pc \in {"getObjectStatus", "triggerIngestion", "getObjectText",
                            "chatCompletion"}
         /\ ~RecordIsCached(Val(reqs[s].evidence).id)) =>
            ~IsDefined(getEvidence(TheCacheAfter, TheVault, Val(reqs[s].evidence).id))

\* a classify answer 200 holds the record as updated
ClassifyOkCarriesRecord ==
    \A s \in Slots :
        (reqs[s].kind = "classify" /\ reqs[s].pc = "done"
            /\ Val(reqs[s].response).code = 200) =>
            /\ IsDefined(Val(reqs[s].response).evidence)
            /\ Val(Val(reqs[s].response).evidence).ingestionStatus = "completed"

\* C27: when the record a classify request has resolved is deleted while the
\* request waits on a remote call, the request's final write does not put
\* the record back into the cache, and every classify answer 200 carries the
\* updated record.
ClassifyAfterDeleteIsSound ==
    []ClassifyOkCarriesRecord /\ [][ClassifyDoesNotRecreate]_vars

----------------------------------------------------------------------------
(* Two classify requests for the same record *)

NextTwo ==
    \/ \E s \in SlotIds :
          \/ UploadStart(s, {<<PdfFile>>}, MaxObjects)
          \/ UploadGetUrl(s)
          \/ UploadToS3(s)
          \/ UploadRegister(s)
          \/ ClassifyStart(s, ObjectIds)
          \/ ClassifyStatus(s)
          \/ ClassifyTrigger(s)
          \/ ClassifyText(s, {DocumentText})
          \/ ClassifyLLM(s, {GoodAnswer, EmptyAnswer})
          \/ Respond(s)
    \/ EnvStatus({"completed"})

SpecTwo == InitTwo /\ [][NextTwo]_vars

\* the seven properties a classify request writes
ClassifiedFields(e) ==
    [category |-> e.category, tags |-> e.tags, summary |-> e.summary,
     dateDetected |-> e.dateDetected, relevanceScore |-> e.relevanceScore,
     extractedText |-> e.extractedText, ingestionStatus |-> e.ingestionStatus]

\* what one request writes, from its own classification and its own text
FieldsOf(r) ==
    LET c == Val(Val(r.response).classification)
    IN [category |-> c.category, tags |-> c.suggestedTags, summary |-> Some(c.summary),
        dateDetected |-> c.dateDetected, relevanceScore |-> c.relevanceScore,
        extractedText |-> Some(substring(r.text, 5000)), ingestionStatus |-> "completed"]

ClassifiedOk(r) ==
    r.kind = "classify" /\ r.pc = "done" /\ Val(r.response).code = 200

\* both requests have written, and they wrote different classifications
BothClassified ==
    /\ limit = 2 /\ ClassifiedOk(reqs[1]) /\ ClassifiedOk(reqs[2])
    /\ Val(reqs[1].evidence).id = Val(reqs[2].evidence).id

\* C28: when two classify requests for the same record have both completed,
\* the record's category, tags, summary, dateDetected, relevanceScore,
\* extractedText and ingestionStatus are those one of the two requests wrote
\* (never a mixture of the two), and the ingestionStatus is 'completed'.
LastClassifyWins ==
    BothClassified =>
        LET e == Val(getEvidence(TheCache, TheVault, Val(reqs[1].evidence).id))
        IN /\ ClassifiedFields(e) \in {FieldsOf(reqs[1]), FieldsOf(reqs[2])}
           /\ e.ingestionStatus = "completed"

\* the two requests got different answers and different texts, and overlapped
LastClassifyWinsWitness ==
    /\ BothClassified
    /\ FieldsOf(reqs[1]).category # FieldsOf(reqs[2]).category
    /\ FieldsOf(reqs[1]).extractedText # FieldsOf(reqs[2]).extractedText
    /\ ClassifiedFields(Val(getEvidence(TheCache, TheVault, 1))) = FieldsOf(reqs[1])
    /\ reqs[2].calls = <<"getObjectStatus", "getObjectText", "chatCompletion">>

----------------------------------------------------------------------------
(* The date filter, day by day *)

\* the day (YYYY-MM-DD) of a date or of an ISO timestamp
DayOf(date) == SubSeq(date, 1, 10)

\* the record's day lies within the range, both ends included
DayIsInRange(item, f) ==
    /\ Truthy(f.dateRange.start) =>
          ~StrLess(DayOf(ItemDate(item)), Val(f.dateRange.start))
    /\ Truthy(f.dateRange.end) =>
          ~StrLess(Val(f.dateRange.end), DayOf(ItemDate(item)))

\* C29: the date filter of filterEvidence is inclusive at both ends: among
\* the records the other filters let through, exactly those are returned
\* whose date (dateDetected if present, else createdAt) falls on or after the
\* start day and on or before the end day.
DateFilterIsInclusive ==
    result # NoResult =>
        Range(Val(result)) =
            {item \in Range(getAllEvidence(TheCache, "v1")) :
                /\ CategoryMatches(item, filters) /\ TagMatches(item, filters)
                /\ TextMatches(item, filters) /\ DayIsInRange(item, filters)}


----------------------------------------------------------------------------
(* app/page.tsx driving the classify handler: handleFileUpload uploads a
   document and classifyEvidence polls the handler for it *)

\* response.ok, response.status and response.json() for an answer of the handler
AnswerOf(response) ==
    FetchAnswer(TRUE, response.code, TRUE, response.status, response.error)

\* handleFileUpload after the upload's answer: classifyEvidence(result.objectId)
\* for the file that was uploaded
PageOnUpload(s) ==
    /\ At(s, "upload", "done") /\ client = NoClient
    /\ LET uploaded == SelectSeq(Val(reqs[s].response).results,
                           LAMBDA res : res.status = "uploaded" /\ IsDefined(res.objectId))
       IN client' = IF uploaded # <<>> THEN ClientStarted(Val(Head(uploaded).objectId))
                    ELSE NoClient
    /\ reqs' = [reqs EXCEPT ![s] = Idle]
    /\ hist' = NoHist
    /\ UNCHANGED <<cacheVars, remoteVars, limit, filters, result>>

\* handleFileUpload: fetch(.../evidence, POST) with one document, once
PageUpload(s) ==
    /\ client = NoClient
    /\ UploadStart(s, {<<PdfFile>>}, MaxObjects)

\* fetch(.../classify, POST) reaches the handler
LoopRequest(s) ==
    /\ client.pc = "fetch"
    /\ ClassifyStart(s, {client.evidenceId})

\* the fetch settles with the handler's answer, or is rejected
LoopAnswer(s) ==
    /\ At(s, "classify", "done") /\ client.pc = "fetch"
    /\ \E a \in {AnswerOf(Val(reqs[s].response)), FetchAnswer(FALSE, 0, FALSE, "", "")} :
          client' = [ClientOnAnswer(client, a) EXCEPT !.pc = "sleep", !.requests = @ + 1]
    /\ reqs' = [reqs EXCEPT ![s] = Idle]
    /\ hist' = NoHist
    /\ UNCHANGED <<cacheVars, remoteVars, limit, filters, result>>

\* chatCompletion fails
ClassifyLLMFails(s) ==
    /\ At(s, "classify", "chatCompletion")
    /\ ClassifyFail(s, Call(reqs[s], "chatCompletion"))
    /\ hist' = NoHist
    /\ UNCHANGED <<remoteVars, limit, pureVars>>

\* a step of the loop or of the request it waits for
LoopStep ==
    \/ ClientSleep
    \/ ClientExit
    \/ \E s \in SlotIds :
          \/ ClassifyLLMFails(s)
          \/ LoopAnswer(s)
          \/ LoopRequest(s)
          \/ ClassifyStatus(s)
          \/ ClassifyTrigger(s)
          \/ ClassifyText(s, {DocumentText})
          \/ ClassifyLLM(s, {GoodAnswer})

NextLoop ==
    \/ \E s \in SlotIds :
          \/ PageUpload(s)
          \/ UploadGetUrl(s)
          \/ UploadToS3(s)
          \/ UploadRegister(s)
          \/ PageOnUpload(s)
          \/ SyncList(s)
          \/ LoopRequest(s)
          \/ ClassifyStatus(s)
          \/ ClassifyTrigger(s)
          \/ ClassifyText(s, {DocumentText})
          \/ ClassifyLLM(s, {GoodAnswer})
          \/ LoopAnswer(s)
    \/ ClientSleep
    \/ ClientExit
    \/ EnvStatus({"processing", "completed", "failed"})

\* timers fire, every awaited call settles and every fetch is answered
SpecLoop == Init /\ [][NextLoop]_vars /\ WF_vars(LoopStep)

\* the handler has answered an attempt of the loop
AttemptAnswered(s) == At(s, "classify", "done") /\ client.pc = "fetch"

\* the attempt read the ingestion status (the call succeeded) and it was not
\* 'completed'
ReadNotCompleted(r) == r.status \notin {"", "completed"}

AnswersStillProcessing(r) ==
    /\ Val(r.response).code = 400
    /\ Val(r.response).error = "Document is still processing"

\* a step of a request that has read a status other than 'completed' leaves
\* the record as it is
AttemptLeavesRecord ==
    \A s \in SlotIds :
        (s \in Slots /\ reqs[s].kind = "classify" /\ ReadNotCompleted(reqs[s])
                     /\ reqs'[s] # reqs[s]) =>
            getEvidence(TheCacheAfter, TheVault, reqs[s].evidenceId)
                = getEvidence(TheCache, TheVault, reqs[s].evidenceId)

\* the attempt read 'completed' and all its remote calls succeeded
CompletingAttempt ==
    \E s \in SlotIds :
        /\ AttemptAnswered(s) /\ reqs[s].status = "completed"
        /\ Val(reqs[s].response).code = 200

LoopWaitsForIngestion ==
    \A s \in SlotIds :
        (AttemptAnswered(s) /\ ReadNotCompleted(reqs[s])) =>
            AnswersStillProcessing(reqs[s])

\* C30: for a document uploaded by the page and polled by its retry loop,
\* an attempt that reads the remote ingestion status 'completed' and whose
\* remote calls succeed leaves the record with ingestionStatus 'completed' in
\* the cache, and the loop then stops; every attempt that reads another
\* status answers 'Document is still processing' and leaves the record
\* unclassified.
RetryLoopCompletes ==
    /\ []LoopWaitsForIngestion
    /\ [][AttemptLeavesRecord]_vars
    /\ [](CompletingAttempt => Local(client.evidenceId).ingestionStatus = "completed")
    /\ CompletingAttempt ~> (client.pc = "finished")

====
